---- MODULE Spec2Model ----
(***************************************************************************)
(* aartisan: the component classifier, the purpose inferencer, the         *)
(* enhancement strategy engine, the import reconciler, the render-root     *)
(* wrapper and the six-phase port orchestrator, as state machines.         *)
(*                                                                         *)
(* Source text is modelled by the syntax tree the code works on: a file is *)
(* its import declarations and its top-level declarations, a declaration   *)
(* its return sites and their JSX attributes.  Component names are real    *)
(* strings, and the name tests are the code's case-insensitive substring   *)
(* tests.                                                                  *)
(***************************************************************************)
EXTENDS Naturals, Sequences, FiniteSets, TLC

VARIABLES
    \* ---- classifier / inferencer (isReactComponent, extractComponent)
    cNode,          \* the declaration handed to the classifier
    cStage,         \* "input" | "classified" | "extracted"
    cReported,      \* per classifier: did isReactComponent answer true
    cDescriptor,    \* per pipeline: the descriptor extractComponent produced
    \* ---- strategy engine on one file (transformComponents, second pass)
    tFile,          \* the file content the next pass reads
    tLevel,         \* options.level
    tPasses,        \* number of passes applied so far
    tPrev,          \* the content the last pass read
    tOrig,          \* the content before the first pass
    tWritten,       \* did the last pass write the file
    \* ---- import reconciliation after the rewrite (port.js, annotate.js)
    rPipeline,      \* "port" | "annotate"
    rFile,          \* the file content before the rewrite
    rLevel,         \* options.level (port)
    rCode,          \* the enhanced code the LLM returned (annotate)
    rRaises,        \* does addAartisanImports raise inside its try block (port)
    rStage,         \* "input" | "done"
    rResult,        \* what the step left: written, content, bodies, failed
    \* ---- analyzer metadata (enhanceWithAI, analyzeComponentWithAI)
    aComponent,     \* the component descriptor being enhanced
    aProviders,     \* aiProviders[*].available
    aKeys,          \* the API keys handed to initializeProviders (given or not)
    aUseAI,         \* options.useAI
    aCallThrows,    \* does the provider call throw for this component
    aStage,         \* "input" | "initialized" | "enhanced"
    aMetadata,      \* component.metadata after enhanceWithAI
    \* ---- port orchestrator (portProject and its six phases)
    project,        \* the source tree as it was before the first invocation
    options,        \* command options (level, createWrapper)
    registry,       \* aiProviders[*].available when portProject is called
    fsFault,        \* phase in which a file-system call rejects (0: none)
    pc,             \* "ready" | "identify" | "enhance" | "done" | "rejected"
    phase,          \* index of the phase last started (1..6), 0 before the first
    started,        \* phases started by this invocation, in order
    returned,       \* phases that returned normally in this invocation, in order
    threw,          \* the phase that threw in this invocation (0: none)
    context,        \* the PortContext threaded through the phases
    localMap,       \* transformComponents' local componentMap
    cursor,         \* position of the running pass in its list
    srcTree,        \* files under sourcePath: path -> content
    outTree,        \* files under outputPath: path -> content
    outWrites,      \* paths written under outputPath by this invocation
    srcWrites,      \* paths written under sourcePath by this invocation
    fallbackRan,    \* did this invocation call createWrapperFile
    wrapped,        \* did a detector wrap a mount call in this invocation
    warned,         \* did phase 4 of this invocation print a warning
    integrated,     \* number of times phase 4 has run on these trees
    runs,           \* invocations of portProject so far
    \* ---- React runtime (AartisanProvider, useAIEnhanced)
    hStage,         \* "idle" | "unmounted" | "mounted"
    hConfigGiven,   \* does the parent pass a config object (else the default {})
    hUsers,         \* the mounted components that call useAIEnhanced
    hRefAttached,   \* those of them that put the returned ref on an element
    hVersion,       \* identity of the closures made by the provider's last render
    hConfig,        \* identity of config in the provider's last render
    hProviderDeps,  \* [ran, config]: the deps the provider's effect last ran with
    hEffectDeps,    \* per component: [ran, fn], the deps its effect last ran with
    hCleanup,       \* components whose last effect run returned a cleanup
    hQueue,         \* state updates scheduled with setContextValue, in order
    hEnhanced,      \* keys of contextValue.enhancedComponents
    hRenders,       \* renders of the provider so far (counted up to MaxRenders)
    \* ---- annotate command on one file (annotateCommand)
    nProvider,      \* options.provider
    nOtherFiles,    \* are there component files besides this one
    nFile,          \* the file on disk
    nPrev,          \* the file as the last applyEnhancement read it
    nComponents,    \* componentsToAnalyze
    nCursor,        \* position of the running loop in componentsToAnalyze
    nStage,         \* the statement annotateCommand is at
    nInFlight,      \* outbound requests sent and not yet settled
    nIssued,        \* outbound requests sent so far, in order
    nAnswer,        \* the code the last generate request returned
    nApplied        \* what the last applyEnhancement did (written, failed)

classifierVars == <<cNode, cStage, cReported, cDescriptor>>
transformVars  == <<tFile, tLevel, tPasses, tPrev, tOrig, tWritten>>
reconcileVars  == <<rPipeline, rFile, rLevel, rCode, rRaises, rStage, rResult>>
analyzerVars   == <<aComponent, aProviders, aKeys, aUseAI, aCallThrows, aStage, aMetadata>>
portVars       == <<project, options, registry, fsFault, pc, phase, started, returned,
                    threw, context, localMap, cursor, srcTree, outTree, outWrites,
                    srcWrites, fallbackRan, wrapped, warned, integrated, runs>>
reactVars      == <<hStage, hConfigGiven, hUsers, hRefAttached, hVersion, hConfig,
                    hProviderDeps, hEffectDeps, hCleanup, hQueue, hEnhanced, hRenders>>
annotateVars   == <<nProvider, nOtherFiles, nFile, nPrev, nComponents, nCursor, nStage,
                    nInFlight, nIssued, nAnswer, nApplied>>
vars == <<classifierVars, transformVars, reconcileVars, analyzerVars, portVars, reactVars,
          annotateVars>>

-----------------------------------------------------------------------------
(* Bounds *)

\* Longest list of return sites of one declaration.
MaxSites == 2
\* Most component declarations in one file.
MaxDecls == 2
\* Most passes of the transform over one file.
MaxPasses == 2
\* Most invocations of portProject on one pair of trees.
MaxRuns == 2

-----------------------------------------------------------------------------
(* Strings: String.prototype.toLowerCase and RegExp.prototype.test for the  *)
(* literal, case-insensitive patterns the code uses.                        *)

LowerChar(c) ==
    CASE c = "A" -> "a" [] c = "B" -> "b" [] c = "C" -> "c" [] c = "D" -> "d"
      [] c = "E" -> "e" [] c = "F" -> "f" [] c = "G" -> "g" [] c = "H" -> "h"
      [] c = "I" -> "i" [] c = "J" -> "j" [] c = "K" -> "k" [] c = "L" -> "l"
      [] c = "M" -> "m" [] c = "N" -> "n" [] c = "O" -> "o" [] c = "P" -> "p"
      [] c = "Q" -> "q" [] c = "R" -> "r" [] c = "S" -> "s" [] c = "T" -> "t"
      [] c = "U" -> "u" [] c = "V" -> "v" [] c = "W" -> "w" [] c = "X" -> "x"
      [] c = "Y" -> "y" [] c = "Z" -> "z" [] OTHER -> c

RECURSIVE toLowerCase(_)
toLowerCase(s) ==
    IF Len(s) = 0 THEN ""
    ELSE LowerChar(SubSeq(s, 1, 1)) \o toLowerCase(SubSeq(s, 2, Len(s)))

\* s.includes(p)
includes(s, p) ==
    \E i \in 1..(Len(s) + 1 - Len(p)) : SubSeq(s, i, i + Len(p) - 1) = p

\* /p/i.test(s)
test(p, s) == includes(toLowerCase(s), p)

\* /p1|p2|.../i.test(s)
testAny(ps, s) == \E p \in ps : test(p, s)

\* s.startsWith(p)
startsWith(s, p) == Len(s) >= Len(p) /\ SubSeq(s, 1, Len(p)) = p

-----------------------------------------------------------------------------
(* Purpose inference: three implementations of the same taxonomy.           *)

\* inferPurpose without its final return: the chain of patterns alone.
inferPurposeNoDefault(componentName) ==
    IF      test("button", componentName) THEN "action-button"
    ELSE IF test("card", componentName) THEN "display-card"
    ELSE IF test("list", componentName) THEN "list-container"
    ELSE IF test("item", componentName) THEN "list-item"
    ELSE IF test("form", componentName) THEN "input-form"
    ELSE IF test("input", componentName) THEN "input-field"
    ELSE IF test("nav", componentName) THEN "navigation"
    ELSE "undefined"

\* port.js inferPurpose(componentName)
inferPurpose(componentName) ==
    IF      test("button", componentName) THEN "action-button"
    ELSE IF test("card", componentName) THEN "display-card"
    ELSE IF test("list", componentName) THEN "list-container"
    ELSE IF test("item", componentName) THEN "list-item"
    ELSE IF test("form", componentName) THEN "input-form"
    ELSE IF test("input", componentName) THEN "input-field"
    ELSE IF test("nav", componentName) THEN "navigation"
    ELSE IF test("header", componentName) THEN "page-header"
    ELSE IF test("footer", componentName) THEN "page-footer"
    ELSE IF test("modal", componentName) THEN "modal-dialog"
    ELSE IF test("table", componentName) THEN "data-table"
    ELSE IF testAny({"chart", "graph"}, componentName) THEN "data-visualization"
    ELSE IF test("container", componentName) THEN "layout-container"
    ELSE IF test("layout", componentName) THEN "page-layout"
    ELSE IF test("sidebar", componentName) THEN "navigation-sidebar"
    ELSE IF test("tab", componentName) THEN "navigation-tab"
    ELSE IF test("dialog", componentName) THEN "dialog-box"
    ELSE IF testAny({"alert", "notification"}, componentName) THEN "notification"
    ELSE IF test("icon", componentName) THEN "decorative-icon"
    ELSE "ui-component"

\* analyze.js inferButtonPurpose(name, code)
inferButtonPurpose(name) ==
    LET nameLower == toLowerCase(name) IN
    IF      test("submit", nameLower) THEN "submit-button"
    ELSE IF test("cancel", nameLower) THEN "cancel-button"
    ELSE IF testAny({"delete", "remove"}, nameLower) THEN "delete-button"
    ELSE IF testAny({"add", "create", "new"}, nameLower) THEN "create-button"
    ELSE IF testAny({"edit", "update"}, nameLower) THEN "edit-button"
    ELSE IF test("save", nameLower) THEN "save-button"
    ELSE IF test("close", nameLower) THEN "close-button"
    ELSE IF test("back", nameLower) THEN "navigation-back-button"
    ELSE IF test("next", nameLower) THEN "navigation-next-button"
    ELSE IF test("toggle", nameLower) THEN "toggle-button"
    ELSE "action-button"

\* analyze.js inferPurpose(name, code)
inferPurposeAnalyzer(name) ==
    LET nameLower == toLowerCase(name) IN
    IF      testAny({"button", "btn"}, nameLower) THEN inferButtonPurpose(name)
    ELSE IF test("card", nameLower) THEN "display-card"
    ELSE IF test("list", nameLower)
         THEN (IF includes(nameLower, "item") THEN "list-item" ELSE "list-container")
    ELSE IF test("form", nameLower) THEN "input-form"
    ELSE IF testAny({"input", "field", "select", "checkbox", "radio", "textarea"}, nameLower)
         THEN "input-field"
    ELSE IF testAny({"nav", "menu"}, nameLower) THEN "navigation"
    ELSE IF test("header", nameLower) THEN "page-header"
    ELSE IF test("footer", nameLower) THEN "page-footer"
    ELSE IF testAny({"modal", "dialog", "popup"}, nameLower) THEN "modal-dialog"
    ELSE IF test("table", nameLower)
         THEN (IF includes(nameLower, "row") \/ includes(nameLower, "cell")
               THEN "table-item" ELSE "data-table")
    ELSE IF testAny({"chart", "graph", "plot"}, nameLower) THEN "data-visualization"
    ELSE IF testAny({"container", "wrapper", "layout"}, nameLower) THEN "layout-container"
    ELSE IF test("sidebar", nameLower) THEN "navigation-sidebar"
    ELSE IF test("tab", nameLower)
         THEN (IF includes(nameLower, "panel") THEN "tab-panel" ELSE "navigation-tab")
    ELSE IF testAny({"alert", "notification", "toast"}, nameLower) THEN "notification"
    ELSE IF test("icon", nameLower) THEN "decorative-icon"
    ELSE IF testAny({"image", "img", "photo"}, nameLower) THEN "display-image"
    ELSE IF testAny({"video", "player"}, nameLower) THEN "media-player"
    ELSE "ui-component"

\* vite-plugin transform: inferPurpose(path, componentName)
inferPurposeJsx(componentName) ==
    IF      test("button", componentName) THEN "interactive-button"
    ELSE IF test("card", componentName) THEN "display-card"
    ELSE IF test("list", componentName) THEN "list-container"
    ELSE IF test("item", componentName) THEN "list-item"
    ELSE IF test("form", componentName) THEN "input-form"
    ELSE IF test("input", componentName) THEN "input-field"
    ELSE IF test("header", componentName) THEN "page-header"
    ELSE IF test("footer", componentName) THEN "page-footer"
    ELSE IF test("nav", componentName) THEN "navigation"
    ELSE IF test("modal", componentName) THEN "modal-dialog"
    ELSE "ui-component"

\* Component names of the modelled projects.
Names == {"DeleteButton", "SubmitBtn", "TodoList", "ListItem", "Card", "App",
          "Widget", "NavBar"}

-----------------------------------------------------------------------------
(* The syntax tree of a declaration, as far as the code inspects it.        *)
(*                                                                          *)
(* A site is a place where a function hands back a value: a ReturnStatement *)
(* or the expression body of an arrow function.  nested tells whether the   *)
(* site belongs to a function nested in the declaration (a callback) rather *)
(* than to the declared function itself; inRender, for a class, whether it  *)
(* lies in the render method.  Sites are listed in traversal order.         *)

Attr(n, v)   == [kind |-> "attr", name |-> n, value |-> v]
Spread(v)    == [kind |-> "spread", name |-> "", value |-> v]

Site(stmt, arg, nested, inRender) ==
    [stmt |-> stmt, arg |-> arg, nested |-> nested, inRender |-> inRender, attrs |-> <<>>]

Declaration(decl, init, id, name, body, sites) ==
    [decl |-> decl, init |-> init, id |-> id, name |-> name, body |-> body,
     superClass |-> "", stmts |-> <<>>, sites |-> sites, jsxAttrs |-> <<>>,
     children |-> 0]

ClassDeclaration(id, name, superClass, sites) ==
    [decl |-> "ClassDeclaration", init |-> "none", id |-> id, name |-> name,
     body |-> "block", superClass |-> superClass, stmts |-> <<>>, sites |-> sites,
     jsxAttrs |-> <<>>, children |-> 0]

SeqsUpTo(S, n) == UNION {[1..k -> S] : k \in 0..n}

\* Sites a block body can hold.
BlockSites == {Site("return", "element", FALSE, FALSE),
               Site("return", "fragment", FALSE, FALSE),
               Site("return", "other", FALSE, FALSE),
               Site("return", "element", TRUE, FALSE),
               Site("arrowBody", "element", TRUE, FALSE)}

\* Sites of the callbacks inside an expression.
NestedSites == {Site("return", "element", TRUE, FALSE),
                Site("arrowBody", "element", TRUE, FALSE)}

IsJSX(arg) == arg \in {"element", "fragment"}

-----------------------------------------------------------------------------
(* Component Classifier                                                     *)

\* path.traverse({ReturnStatement}) finding a JSX element or fragment argument:
\* every ReturnStatement of the subtree is visited, nested functions included.
ReturnsJSX(node) ==
    \E i \in 1..Len(node.sites) :
        node.sites[i].stmt = "return" /\ IsJSX(node.sites[i].arg)

\* port.js isReactComponent(path)
isReactComponent(node) ==
    IF node.decl = "FunctionDeclaration" THEN ReturnsJSX(node)
    ELSE IF node.decl = "VariableDeclarator" /\ node.init = "arrow"
         THEN IF node.body \in {"jsx", "fragment"} THEN TRUE
              ELSE IF node.body = "block" THEN ReturnsJSX(node)
              ELSE FALSE
    ELSE FALSE

\* analyze.js isReactComponent(path)
isReactComponentAnalyzer(node) ==
    IF node.decl = "FunctionDeclaration" THEN ReturnsJSX(node)
    ELSE IF node.decl = "VariableDeclarator" /\ node.init = "arrow"
         THEN IF node.body \in {"jsx", "fragment"} THEN TRUE
              ELSE IF node.body = "block" THEN ReturnsJSX(node)
              ELSE FALSE
    ELSE FALSE

\* vite-plugin transform: isReactComponent(path)
isReactComponentJsx(node) ==
    IF node.decl = "FunctionDeclaration" THEN ReturnsJSX(node)
    ELSE IF node.decl = "VariableDeclarator" /\ node.init = "arrow"
         THEN node.body \in {"jsx", "fragment"}
    ELSE FALSE

\* port.js / analyze.js isReactClassComponent(path)
isReactClassComponent(node) ==
    /\ node.decl = "ClassDeclaration"
    /\ node.superClass \in {"React.Component", "Component"}

\* eventHandlers: the JSX attribute names that start with "on" and are longer.
eventHandlersOf(node) ==
    SelectSeq(node.jsxAttrs, LAMBDA n : startsWith(n, "on") /\ Len(n) > 2)

\* jsxElements.length: every JSXElement of the subtree.
jsxElementsOf(node) ==
    node.children
    + Cardinality({i \in 1..Len(node.sites) : node.sites[i].arg = "element"})

RECURSIVE joinTokens(_)
joinTokens(names) ==
    IF names = <<>> THEN "" ELSE " " \o Head(names) \o joinTokens(Tail(names))

\* component.code as far as the substring tests read it: the printed
\* declaration's name and JSX attribute names, in order.
codeOf(node) == node.name \o joinTokens(node.jsxAttrs)

NoComponent == [result |-> "null"]
Threw       == [result |-> "threw"]

\* port.js extractComponent(path).  path.node.id is null for an anonymous
\* function declaration (export default function () {...}), so id.name throws;
\* a destructuring declarator has no id.name, so the name stays empty.
extractComponent(node) ==
    IF node.id = "null" THEN Threw
    ELSE IF node.id # "identifier" \/ node.name = "" THEN NoComponent
    ELSE [result |-> "component",
          name |-> node.name,
          type |-> IF node.decl = "FunctionDeclaration" THEN "function" ELSE "arrow",
          purpose |-> inferPurpose(node.name),
          eventHandlers |-> eventHandlersOf(node),
          jsxElements |-> jsxElementsOf(node)]

\* port.js extractClassComponent(path)
extractClassComponent(node) ==
    IF node.id = "null" THEN NoComponent
    ELSE [result |-> "component",
          name |-> node.name,
          type |-> "class",
          purpose |-> inferPurpose(node.name),
          eventHandlers |-> eventHandlersOf(node),
          jsxElements |-> jsxElementsOf(node)]

\* The visitors of transformComponents' first pass applied to one declaration:
\* FunctionDeclaration, VariableDeclarator (arrow initialisers only) and
\* ClassDeclaration.
visitDeclaration(node) ==
    IF node.decl = "FunctionDeclaration"
    THEN IF isReactComponent(node) THEN extractComponent(node) ELSE NoComponent
    ELSE IF node.decl = "VariableDeclarator"
    THEN IF node.init = "arrow" /\ isReactComponent(node)
         THEN extractComponent(node) ELSE NoComponent
    ELSE IF isReactClassComponent(node) THEN extractClassComponent(node)
    ELSE NoComponent

\* The declarations the classifier is run on: every shape of function
\* declaration and declared arrow function over the bounded site lists.
ClassifierShapes ==
    {Declaration("FunctionDeclaration", "none", id, "", "block", ss) :
        id \in {"identifier", "null"}, ss \in SeqsUpTo(BlockSites, MaxSites)}
    \cup
    {Declaration("VariableDeclarator", "arrow", id, "", "block", ss) :
        id \in {"identifier", "pattern"}, ss \in SeqsUpTo(BlockSites, MaxSites)}
    \cup
    {Declaration("VariableDeclarator", "arrow", "identifier", "", b,
                 <<Site("arrowBody", IF b = "jsx" THEN "element" ELSE "fragment",
                        FALSE, FALSE)>> \o ss) :
        b \in {"jsx", "fragment"}, ss \in SeqsUpTo(NestedSites, MaxSites - 1)}
    \cup
    {Declaration("VariableDeclarator", "arrow", "identifier", "", "expr", ss) :
        ss \in SeqsUpTo(NestedSites, MaxSites)}
    \cup
    {Declaration("VariableDeclarator", "function", "identifier", "", "block", ss) :
        ss \in SeqsUpTo(BlockSites, 1)}

ClassifierNodes ==
    {[s EXCEPT !.name = IF s.id = "identifier" THEN n ELSE ""] :
        s \in ClassifierShapes, n \in Names}

ClassifierInit ==
    /\ cNode \in ClassifierNodes
    /\ cStage = "input"
    /\ cReported = [port |-> FALSE, analyzer |-> FALSE, jsx |-> FALSE]
    /\ cDescriptor = [port |-> NoComponent, analyzer |-> NoComponent]

\* The visitor's test: is the declaration a component.
Classify ==
    /\ cStage = "input"
    /\ cStage' = "classified"
    /\ cReported' = [port     |-> isReactComponent(cNode),
                     analyzer |-> isReactComponentAnalyzer(cNode),
                     jsx      |-> isReactComponentJsx(cNode)]
    /\ UNCHANGED <<cNode, cDescriptor>>

\* analyze.js extractComponent(path, filePath): the purpose is not set here
\* (metadata holds the name only); enhanceWithAI fills it in.
extractComponentAnalyzer(node) ==
    IF node.id = "null" THEN Threw
    ELSE IF node.id # "identifier" \/ node.name = "" THEN NoComponent
    ELSE [result |-> "component",
          name |-> node.name,
          type |-> IF node.decl = "FunctionDeclaration" THEN "function" ELSE "arrow",
          purpose |-> "",
          code |-> codeOf(node),
          eventHandlers |-> eventHandlersOf(node),
          jsxElements |-> jsxElementsOf(node)]

\* The visitors of analyze.js analyzeFile applied to one declaration.
visitDeclarationAnalyzer(node) ==
    IF node.decl = "FunctionDeclaration"
    THEN IF isReactComponentAnalyzer(node) THEN extractComponentAnalyzer(node)
         ELSE NoComponent
    ELSE IF node.decl = "VariableDeclarator"
    THEN IF node.init = "arrow" /\ isReactComponentAnalyzer(node)
         THEN extractComponentAnalyzer(node) ELSE NoComponent
    ELSE NoComponent

\* The visitor's body: extract the descriptor of a declaration found to be a
\* component.
Extract ==
    /\ cStage = "classified"
    /\ cStage' = "extracted"
    /\ cDescriptor' = [port     |-> visitDeclaration(cNode),
                       analyzer |-> visitDeclarationAnalyzer(cNode)]
    /\ UNCHANGED <<cNode, cReported>>

ClassifierNext == Classify \/ Extract

ClassifierIdle ==
    /\ cNode = Declaration("FunctionDeclaration", "none", "identifier", "App", "block", <<>>)
    /\ cStage = "idle"
    /\ cReported = [port |-> FALSE, analyzer |-> FALSE, jsx |-> FALSE]
    /\ cDescriptor = [port |-> NoComponent, analyzer |-> NoComponent]

-----------------------------------------------------------------------------
(* Enhancement Strategy Engine.  code is the parsed file: every function    *)
(* below parses its argument, mutates the tree and prints it again          *)
(* (generate), or hands back the text it was given when nothing changed.    *)

MapSeq(f(_), s) == [i \in 1..Len(s) |-> f(s[i])]

\* The element of a singleton set: { e(x) : x \in {v} } names the value v
\* once, however often e reads it.
The(S) == CHOOSE v \in S : TRUE

\* generate(ast, {}, code): the printer's output replaces the original text.
generate(ast) == [ast EXCEPT !.printed = TRUE]

\* A marker check that looks for the wrong attribute name.
hasAartisanAttributesMisnamed(attrs) ==
    \E i \in 1..Len(attrs) : attrs[i].kind = "attr" /\ attrs[i].name = "aartisan"

\* port.js hasAartisanAttributes(openingElement)
hasAartisanAttributes(attrs) ==
    \E i \in 1..Len(attrs) : attrs[i].kind = "attr" /\ attrs[i].name = "data-aartisan"

\* port.js isRootJSXElement(path): a JSX element that is the argument of a
\* return statement or the expression body of an arrow function.
isRootJSXElement(site) == site.arg = "element"

\* The three marker attributes pushed onto an opening element.
MarkerAttributes(purpose, name) ==
    <<Attr("data-aartisan", "true"),
      Attr("data-aartisan-purpose", purpose),
      Attr("data-aartisan-component", name)>>

\* The guarded splice shared by the directive strategies.
addMarkers(site, purpose, name) ==
    IF hasAartisanAttributes(site.attrs) THEN site
    ELSE [site EXCEPT !.attrs = @ \o MarkerAttributes(purpose, name)]

\* port.js addBasicDirectives(code, component): the JSXElement visitor runs
\* over the whole file.
addBasicDirectives(code, component) ==
    LET mark(site) == IF isRootJSXElement(site)
                      THEN addMarkers(site, component.purpose, component.name)
                      ELSE site
        visit(d)   == [d EXCEPT !.sites = MapSeq(mark, d.sites)]
    IN  The({ IF ast.decls # code.decls THEN generate(ast) ELSE code :
              ast \in {[code EXCEPT !.decls = MapSeq(visit, code.decls)]} })

\* port.js addBasicDirectivesToAppComponent(code, component): the
\* ReturnStatement visitor runs over the whole file.
addBasicDirectivesToAppComponent(code, component) ==
    LET mark(site) == IF site.stmt = "return" /\ site.arg = "element"
                      THEN addMarkers(site, "application-root", "App")
                      ELSE site
        visit(d)   == [d EXCEPT !.sites = MapSeq(mark, d.sites)]
    IN  The({ IF ast.decls # code.decls THEN generate(ast) ELSE code :
              ast \in {[code EXCEPT !.decls = MapSeq(visit, code.decls)]} })

\* port.js addDirectivesToClassRender(code, component): every ClassMethod
\* named render, in any class of the file.
addDirectivesToClassRender(code, component) ==
    LET mark(site) == IF site.inRender /\ isRootJSXElement(site)
                      THEN addMarkers(site, component.purpose, component.name)
                      ELSE site
        visit(d)   == IF d.decl = "ClassDeclaration"
                      THEN [d EXCEPT !.sites = MapSeq(mark, d.sites)] ELSE d
    IN  The({ IF ast.decls # code.decls THEN generate(ast) ELSE code :
              ast \in {[code EXCEPT !.decls = MapSeq(visit, code.decls)]} })

\* port.js wrapWithAIEnhancementHOC(code, component)
wrapWithAIEnhancementHOC(code, component) == addDirectivesToClassRender(code, component)

\* The hook statement built by addHookToFunction / addHookToArrowFunction.
hookCall(component) ==
    [call |-> "useAIEnhanced",
     name |-> component.name,
     purpose |-> component.purpose,
     interactions |->
        MapSeq(LAMBDA h : toLowerCase(SubSeq(h, 3, Len(h))),
               SelectSeq(component.eventHandlers, LAMBDA h : startsWith(h, "on")))]

\* An element enhancer that adds the ref attribute unconditionally.
enhanceJSXElementAlways(attrs) ==
    attrs \o <<Attr("ref", "ref"), Spread("aiProps")>>

\* port.js enhanceJSXElement(jsx)
enhanceJSXElement(attrs) ==
    (IF \E i \in 1..Len(attrs) : attrs[i].kind = "attr" /\ attrs[i].name = "ref"
     THEN attrs ELSE attrs \o <<Attr("ref", "ref")>>)
    \o <<Spread("aiProps")>>

\* Index of the first ReturnStatement of the subtree whose argument is a JSX
\* element (0: none).
FirstJSXReturn(d) ==
    LET hits == {i \in 1..Len(d.sites) :
                    d.sites[i].stmt = "return" /\ d.sites[i].arg = "element"}
    IN  IF hits = {} THEN 0 ELSE CHOOSE i \in hits : \A j \in hits : i <= j

\* port.js addHookToFunction(path, component): the mutated node and whether a
\* JSX return was found.
addHookToFunction(d, component) ==
    LET i == FirstJSXReturn(d) IN
    IF d.body # "block" THEN [node |-> d, modified |-> FALSE]
    ELSE IF i = 0
    THEN [node |-> [d EXCEPT !.stmts = <<hookCall(component)>> \o @],
          modified |-> FALSE]
    ELSE [node |-> [d EXCEPT !.stmts = <<hookCall(component)>> \o @,
                             !.sites[i].attrs = enhanceJSXElement(@)],
          modified |-> TRUE]

\* port.js addHookToArrowFunction(path, component)
addHookToArrowFunction(d, component) ==
    LET i == FirstJSXReturn(d) IN
    IF d.body = "block"
    THEN IF i = 0
         THEN [node |-> [d EXCEPT !.stmts = <<hookCall(component)>> \o @],
               modified |-> FALSE]
         ELSE [node |-> [d EXCEPT !.stmts = <<hookCall(component)>> \o @,
                                  !.sites[i].attrs = enhanceJSXElement(@)],
               modified |-> TRUE]
    ELSE IF d.body = "jsx"
    THEN [node |-> [d EXCEPT !.body = "block",
                             !.stmts = <<hookCall(component)>>,
                             !.sites[1].stmt = "return",
                             !.sites[1].attrs = enhanceJSXElement(@)],
          modified |-> TRUE]
    ELSE [node |-> d, modified |-> FALSE]

\* The visitor of addAIEnhancedHook applied to one declaration.
hookVisit(d, component) ==
    IF d.decl = "FunctionDeclaration" /\ d.id = "identifier" /\ d.name = component.name
    THEN addHookToFunction(d, component)
    ELSE IF d.decl = "VariableDeclarator" /\ d.id = "identifier"
            /\ d.name = component.name /\ d.init = "arrow"
    THEN addHookToArrowFunction(d, component)
    ELSE [node |-> d, modified |-> FALSE]

\* port.js addAIEnhancedHook(code, component): falls back to the directives,
\* applied to the text it was given, when no hook could be attached.
addAIEnhancedHook(code, component) ==
    LET visit(d)   == hookVisit(d, component).node
        modified   == \E i \in 1..Len(code.decls) :
                          hookVisit(code.decls[i], component).modified
        ast        == [code EXCEPT !.decls = MapSeq(visit, code.decls)]
    IN  IF ~modified THEN addBasicDirectives(code, component) ELSE generate(ast)

\* port.js convertToDefineComponent(code, component)
convertToDefineComponent(code, component) == addAIEnhancedHook(code, component)

\* port.js enhanceFunctionComponent(code, component, level)
enhanceFunctionComponent(code, component, level) ==
    IF component.name = "App" THEN addBasicDirectivesToAppComponent(code, component)
    ELSE IF level = "basic" THEN addBasicDirectives(code, component)
    ELSE IF level = "advanced" THEN convertToDefineComponent(code, component)
    ELSE addAIEnhancedHook(code, component)

\* port.js enhanceClassComponent(code, component, level)
enhanceClassComponent(code, component, level) ==
    IF level = "advanced" THEN wrapWithAIEnhancementHOC(code, component)
    ELSE addDirectivesToClassRender(code, component)

-----------------------------------------------------------------------------
(* Import Reconciler                                                        *)

Named(n)   == [kind |-> "named", imported |-> n]
Default(n) == [kind |-> "default", imported |-> n]
Import(source, specifiers) == [source |-> source, specifiers |-> specifiers]

\* The specifiers each enhancement type asks for.
importSpecifiersOf(importType) ==
    IF importType = "directive" THEN <<Named("aiPurpose"), Named("aiInteraction")>>
    ELSE IF importType = "hook" THEN <<Named("useAIEnhanced")>>
    ELSE <<Named("defineComponent")>>

\* The import type addAartisanImports derives from the level.
importTypeOf(level) ==
    IF level = "basic" THEN "directive"
    ELSE IF level = "advanced" THEN "defineComponent"
    ELSE "hook"

\* existingImportPath: the last import declaration whose source mentions
\* aartisan (0: none).
existingImportIndex(imports) ==
    LET hits == {i \in 1..Len(imports) : includes(imports[i].source, "aartisan")}
    IN  IF hits = {} THEN 0 ELSE CHOOSE i \in hits : \A j \in hits : j <= i

\* specifiers.forEach(push unless a named specifier of that name is there)
RECURSIVE pushMissing(_, _)
pushMissing(existing, wanted) ==
    IF wanted = <<>> THEN existing
    ELSE LET w == Head(wanted) IN
         pushMissing(
            IF \E i \in 1..Len(existing) :
                   existing[i].kind = "named" /\ existing[i].imported = w.imported
            THEN existing ELSE Append(existing, w),
            Tail(wanted))

\* port.js addAartisanImports(code, components, level)
addAartisanImports(code, components, level) ==
    LET importNeeded ==
            IF level \in {"basic", "advanced"} THEN TRUE
            ELSE \E i \in 1..Len(components) : components[i].type \in {"function", "arrow"}
        wanted == importSpecifiersOf(importTypeOf(level))
        ast(k) == IF k # 0
                  THEN [code EXCEPT !.imports[k].specifiers = pushMissing(@, wanted)]
                  ELSE [code EXCEPT !.imports = <<Import("aartisan/react", wanted)>> \o @]
    IN  IF ~importNeeded THEN code
        ELSE The({ generate(ast(k)) : k \in {existingImportIndex(code.imports)} })

-----------------------------------------------------------------------------
(* transformComponents on one file: the first pass finds the components,    *)
(* the second enhances them one after the other and reconciles the imports. *)

\* First pass over one file: the components found, or the reason the file is
\* left out of the map (a parse error or an exception in a visitor is caught).
identifyComponents(content) ==
    The({ IF ~content.parses THEN [ok |-> FALSE, components |-> <<>>]
          ELSE IF \E i \in 1..Len(visits) : visits[i].result = "threw"
          THEN [ok |-> FALSE, components |-> <<>>]
          ELSE [ok |-> TRUE,
                components |-> SelectSeq(visits, LAMBDA v : v.result = "component")] :
          visits \in {MapSeq(visitDeclaration, content.decls)} })

\* One component of the second pass.
enhanceComponent(code, component, level) ==
    IF component.type \in {"function", "arrow"}
    THEN enhanceFunctionComponent(code, component, level)
    ELSE enhanceClassComponent(code, component, level)

\* The component loop of the second pass: newContent and contentModified.
RECURSIVE enhanceComponents(_, _, _, _)
enhanceComponents(newContent, contentModified, components, level) ==
    IF components = <<>>
    THEN [content |-> newContent, modified |-> contentModified]
    ELSE The({ IF enhancedContent # newContent
               THEN enhanceComponents(enhancedContent, TRUE, Tail(components), level)
               ELSE enhanceComponents(newContent, contentModified, Tail(components), level) :
               enhancedContent \in {enhanceComponent(newContent, Head(components), level)} })

\* Second pass over one map entry: the content to write, if any.
enhanceFile(content, components, level) ==
    The({ IF r.modified
          THEN [content |-> addAartisanImports(r.content, components, level), write |-> TRUE]
          ELSE [content |-> content, write |-> FALSE] :
          r \in {enhanceComponents(content, FALSE, components, level)} })

\* Both passes over one file.
transformFile(content, level) ==
    The({ IF found.ok /\ found.components # <<>>
          THEN enhanceFile(content, found.components, level)
          ELSE [content |-> content, write |-> FALSE] :
          found \in {identifyComponents(content)} })

Levels == {"basic", "standard", "advanced"}

SourceFile(imports, decls) ==
    [imports |-> imports, decls |-> decls, printed |-> FALSE, parses |-> TRUE,
     calls |-> <<>>]

\* The declarations the modelled files are made of.
WithAttrs(site, attrs) == [site EXCEPT !.attrs = attrs]
WithJsxAttrs(d, names) == [d EXCEPT !.jsxAttrs = names]

SampleDeclarations ==
    { WithJsxAttrs(
        Declaration("FunctionDeclaration", "none", "identifier", "DeleteButton", "block",
                    <<Site("return", "element", FALSE, FALSE)>>), <<"onClick">>),
      Declaration("FunctionDeclaration", "none", "identifier", "TodoList", "block",
                  <<Site("arrowBody", "element", TRUE, FALSE),
                    Site("return", "element", FALSE, FALSE)>>),
      Declaration("FunctionDeclaration", "none", "identifier", "App", "block",
                  <<Site("return", "element", FALSE, FALSE)>>),
      Declaration("FunctionDeclaration", "none", "identifier", "Gallery", "block",
                  <<Site("arrowBody", "element", TRUE, FALSE),
                    Site("return", "fragment", FALSE, FALSE)>>),
      Declaration("FunctionDeclaration", "none", "identifier", "Widget", "block",
                  <<Site("return", "other", FALSE, FALSE),
                    WithAttrs(Site("return", "element", FALSE, FALSE),
                              <<Attr("ref", "myRef")>>)>>),
      Declaration("FunctionDeclaration", "none", "null", "", "block",
                  <<Site("return", "element", FALSE, FALSE)>>),
      Declaration("VariableDeclarator", "arrow", "identifier", "ListItem", "jsx",
                  <<Site("arrowBody", "element", FALSE, FALSE)>>),
      Declaration("VariableDeclarator", "arrow", "identifier", "Card", "block",
                  <<Site("return", "element", FALSE, FALSE)>>),
      Declaration("VariableDeclarator", "arrow", "identifier", "NavBar", "fragment",
                  <<Site("arrowBody", "fragment", FALSE, FALSE)>>),
      Declaration("VariableDeclarator", "arrow", "identifier", "SubmitBtn", "block",
                  <<WithAttrs(Site("return", "element", FALSE, FALSE),
                              MarkerAttributes("submit-button", "SubmitBtn"))>>),
      ClassDeclaration("identifier", "Card", "Component",
                       <<Site("return", "element", FALSE, TRUE)>>),
      ClassDeclaration("identifier", "Widget", "React.Component",
                       <<Site("return", "element", FALSE, FALSE),
                         Site("return", "element", FALSE, TRUE)>>) }

\* Files of one to MaxDecls declarations with distinct names.
SampleDeclLists ==
    {ds \in SeqsUpTo(SampleDeclarations, MaxDecls) :
        /\ Len(ds) >= 1
        /\ \A i, j \in 1..Len(ds) : i # j => ds[i].name # ds[j].name}

SampleImports ==
    { <<>>,
      <<Import("react", <<Default("React")>>)>>,
      <<Import("react", <<Default("React")>>),
        Import("aartisan/react", <<Named("AartisanProvider")>>)>>,
      <<Import("aartisan/hooks", <<Named("useAIEnhanced")>>),
        Import("aartisan/directives", <<Named("aiPurpose")>>)>> }

SampleFiles == {SourceFile(im, ds) : im \in SampleImports, ds \in SampleDeclLists}

TransformInit ==
    /\ tFile \in SampleFiles
    /\ tLevel \in Levels
    /\ tPasses = 0
    /\ tPrev = tFile
    /\ tOrig = tFile
    /\ tWritten = FALSE

\* One run of the transform phase over the file the previous run left.
ApplyTransform ==
    /\ tPasses < MaxPasses
    /\ \E r \in {transformFile(tFile, tLevel)} :
        /\ tFile' = r.content
        /\ tWritten' = r.write
    /\ tPrev' = tFile
    /\ tPasses' = tPasses + 1
    /\ UNCHANGED <<tLevel, tOrig>>

TransformNext == ApplyTransform

TransformIdle ==
    /\ tFile = SourceFile(<<>>, <<>>)
    /\ tLevel = "standard"
    /\ tPasses = 0
    /\ tPrev = SourceFile(<<>>, <<>>)
    /\ tOrig = SourceFile(<<>>, <<>>)
    /\ tWritten = FALSE

-----------------------------------------------------------------------------
(* Import reconciliation after the component bodies were rewritten: the     *)
(* tail of the second pass in port.js, and applyEnhancement in annotate.js. *)

\* addAartisanImports with an exception raised inside its try block: the
\* catch logs it and returns the code it was given.
addAartisanImportsCaught(code, components, level, raises) ==
    IF raises THEN code ELSE addAartisanImports(code, components, level)

\* transformComponents, second pass over one entry, with the outcome of the
\* reconciliation kept: the file is written whenever a body changed.
reconcileAndWrite(content, components, level, raises) ==
    The({ IF r.modified
          THEN [written |-> TRUE,
                content |-> addAartisanImportsCaught(r.content, components, level, raises),
                bodies |-> r.content.decls,
                rewritten |-> TRUE,
                failed |-> raises]
          ELSE [written |-> FALSE, content |-> content, bodies |-> content.decls,
                rewritten |-> FALSE, failed |-> FALSE] :
          r \in {enhanceComponents(content, FALSE, components, level)} })

\* The LLM's answer as applyEnhancement reads it: the import statements the
\* regular expression of extractImports matches, whether the import section
\* and the component are well-formed, and the component.
EnhancedCode(imports, importsOk, bodyOk, decl) ==
    [imports |-> imports, importsOk |-> importsOk, bodyOk |-> bodyOk, decl |-> decl]

\* annotate.js extractImports(code)
extractImports(code) == code.imports

\* annotate.js mergeImports(existingImportsBlock, newImports): the new
\* statements whose module the existing block does not import are appended.
mergeImports(existingImportsBlock, newImports) ==
    existingImportsBlock \o
    SelectSeq(newImports,
              LAMBDA n : \A i \in 1..Len(existingImportsBlock) :
                            existingImportsBlock[i].source # n.source)

\* annotate.js extractComponentContent(code): parser.parse throws on a text
\* that is not a well-formed module.
extractComponentContent(code) ==
    IF code.importsOk /\ code.bodyOk
    THEN [threw |-> FALSE, decl |-> code.decl]
    ELSE [threw |-> TRUE, decl |-> code.decl]

\* A file together with the declarations that carry the leading comment
\* @aartisan:analyze.
WithDirectives(file, directives) ==
    [imports |-> file.imports, decls |-> file.decls, printed |-> file.printed,
     parses |-> file.parses, calls |-> file.calls, directives |-> directives]

\* annotate.js applyEnhancement, the traversal that looks for the component:
\* the first declaration, in source order, that is a function declaration, a
\* variable declaration of an arrow function or a class declaration and has
\* the directive; path.stop() ends the search there (0: none found).
locateComponent(file) ==
    LET hits == {i \in file.directives :
                    \/ file.decls[i].decl \in {"FunctionDeclaration", "ClassDeclaration"}
                    \/ (file.decls[i].decl = "VariableDeclarator"
                          /\ file.decls[i].init = "arrow")}
    IN  IF hits = {} THEN 0 ELSE CHOOSE i \in hits : \A j \in hits : i <= j

\* annotate.js applyEnhancement(filePath, enhancedCode).  The range replaced
\* is that of the declaration locateComponent finds; the comment with the
\* directive lies before the range and stays.  An exception leaves the
\* function before fs.writeFile; annotateCommand's per-component catch reports
\* it.
applyEnhancement(file, enhancedCode) ==
    LET k      == locateComponent(file)
        bodies == IF k = 0 THEN file.decls ELSE [file.decls EXCEPT ![k] = enhancedCode.decl]
    IN
    IF ~file.parses \/ k = 0
    THEN [written |-> FALSE, content |-> file, bodies |-> bodies,
          rewritten |-> FALSE, failed |-> TRUE]
    ELSE IF extractImports(enhancedCode) # <<>>
    THEN IF extractComponentContent(enhancedCode).threw
         THEN [written |-> FALSE, content |-> file, bodies |-> bodies,
               rewritten |-> enhancedCode.bodyOk, failed |-> TRUE]
         ELSE [written |-> TRUE,
               content |-> [file EXCEPT
                              !.imports = mergeImports(@, extractImports(enhancedCode)),
                              !.decls = bodies],
               bodies |-> bodies, rewritten |-> TRUE, failed |-> FALSE]
    ELSE [written |-> TRUE,
          content |-> [file EXCEPT !.decls = bodies,
                                   !.parses = enhancedCode.importsOk /\ enhancedCode.bodyOk],
          bodies |-> bodies, rewritten |-> enhancedCode.bodyOk, failed |-> FALSE]

NoCode == EnhancedCode(<<>>, TRUE, TRUE, [decl |-> "none"])

\* The files whose bodies are rewritten: one component each.
ReconcileFiles ==
    {SourceFile(im, <<d>>) :
        im \in SampleImports,
        d \in { Declaration("FunctionDeclaration", "none", "identifier", "DeleteButton",
                            "block", <<Site("return", "element", FALSE, FALSE)>>),
                Declaration("VariableDeclarator", "arrow", "identifier", "Card", "block",
                            <<Site("return", "element", FALSE, FALSE)>>),
                ClassDeclaration("identifier", "Widget", "React.Component",
                                 <<Site("return", "element", FALSE, TRUE)>>) }}

\* The import statements found in the LLM's answers.
EnhancedImports ==
    { <<>>,
      <<Import("aartisan/react", <<Named("useAIEnhanced")>>)>>,
      <<Import("react", <<Default("React")>>),
        Import("aartisan/react", <<Named("useAIEnhanced")>>)>>,
      <<Import("aartisan/react", <<Named("useAIEnhanced")>>),
        Import("aartisan/react", <<Named("aiPurpose")>>)>> }

ReconcileInit ==
    /\ rPipeline \in {"port", "annotate"}
    /\ rFile \in IF rPipeline = "port" THEN ReconcileFiles
                 ELSE {WithDirectives(f, {1}) : f \in ReconcileFiles}
    /\ IF rPipeline = "port"
       THEN /\ rLevel \in Levels
            /\ rRaises \in BOOLEAN
            /\ rCode = NoCode
       ELSE /\ rLevel = "standard"
            /\ rRaises = FALSE
            /\ rCode \in {EnhancedCode(im, iok, bok,
                                       WithJsxAttrs(rFile.decls[1], <<"ref", "aiProps">>)) :
                            im \in EnhancedImports, iok \in BOOLEAN, bok \in BOOLEAN}
    /\ rStage = "input"
    /\ rResult = [written |-> FALSE, content |-> rFile, bodies |-> rFile.decls,
                  rewritten |-> FALSE, failed |-> FALSE]

\* port.js: the second pass over the file's entry.
ReconcilePort ==
    /\ rPipeline = "port"
    /\ rStage = "input"
    /\ \E found \in {identifyComponents(rFile)} :
          rResult' = reconcileAndWrite(rFile, found.components, rLevel, rRaises)
    /\ rStage' = "done"
    /\ UNCHANGED <<rPipeline, rFile, rLevel, rCode, rRaises>>

\* annotate.js: applyEnhancement inside annotateCommand's per-component try.
ApplyEnhancement ==
    /\ rPipeline = "annotate"
    /\ rStage = "input"
    /\ rResult' = applyEnhancement(rFile, rCode)
    /\ rStage' = "done"
    /\ UNCHANGED <<rPipeline, rFile, rLevel, rCode, rRaises>>

ReconcileNext == ReconcilePort \/ ApplyEnhancement

ReconcileIdle ==
    /\ rPipeline = "idle"
    /\ rFile = SourceFile(<<>>, <<>>)
    /\ rLevel = "standard"
    /\ rCode = NoCode
    /\ rRaises = FALSE
    /\ rStage = "idle"
    /\ rResult = [written |-> FALSE, content |-> SourceFile(<<>>, <<>>), bodies |-> <<>>,
                  rewritten |-> FALSE, failed |-> FALSE]

-----------------------------------------------------------------------------
(* The annotate command on one file: annotateCommand, its outbound requests *)
(* and the application of the LLM's answers.                                *)
(*                                                                          *)
(* An await is a send followed by a wait: the statement after it runs once  *)
(* the request has settled.                                                 *)

Request(kind, component) == [kind |-> kind, component |-> component]

\* A continuation that does not wait for the promise.
notAwaited(inFlight) == TRUE

\* The promise of the request just sent has settled.
awaited(inFlight) == inFlight = {}

\* annotate.js findComponentsWithDirectives(filePaths) on one file: the
\* visitors push a component for every declaration with the directive;
\* path.node.id.name throws for a declaration without id, and the per-file
\* catch keeps what was pushed before.
RECURSIVE findFrom(_, _, _)
findFrom(file, i, components) ==
    IF i > Len(file.decls) THEN components
    ELSE IF i \notin file.directives THEN findFrom(file, i + 1, components)
    ELSE IF file.decls[i].decl = "VariableDeclarator"
    THEN IF file.decls[i].init = "arrow"
         THEN findFrom(file, i + 1,
                       Append(components, [name |-> file.decls[i].name, type |-> "arrow",
                                           code |-> file.decls[i], componentNode |-> i]))
         ELSE findFrom(file, i + 1, components)
    ELSE IF file.decls[i].id = "null" THEN components
    ELSE findFrom(file, i + 1,
                  Append(components,
                         [name |-> file.decls[i].name,
                          type |-> IF file.decls[i].decl = "ClassDeclaration"
                                   THEN "class" ELSE "function",
                          code |-> file.decls[i], componentNode |-> i]))

findComponentsWithDirectives(file) ==
    IF file.directives = {} \/ ~file.parses THEN <<>> ELSE findFrom(file, 1, <<>>)

\* part_016 findRelatedFiles(query, documents, options): does it send a
\* rerank request.  cohereRerank returns early for an empty document list;
\* another provider filters by keyword.
findRelatedFiles(provider, otherFiles) == provider = "cohere" /\ otherFiles

\* The component as the LLM hands it back.
Enhanced(d) == WithJsxAttrs(d, <<"ref", "aiProps">>)

NoAnswer == [ok |-> FALSE, code |-> NoCode]

\* The ways a request can settle: validateApiKey answers true or false,
\* cohereRerank catches its errors, a generate request returns code for the
\* component of the prompt or throws.
Responses(request, components) ==
    IF request.kind = "generate"
    THEN {NoAnswer} \cup
         {[ok |-> TRUE,
           code |-> EnhancedCode(im, iok, bok, Enhanced(components[request.component].code))] :
            im \in EnhancedImports, iok \in BOOLEAN, bok \in BOOLEAN}
    ELSE {[ok |-> b, code |-> NoCode] : b \in BOOLEAN}

AnnotateDeclarations ==
    { Declaration("FunctionDeclaration", "none", "identifier", "DeleteButton", "block",
                  <<Site("return", "element", FALSE, FALSE)>>),
      Declaration("VariableDeclarator", "arrow", "identifier", "Card", "block",
                  <<Site("return", "element", FALSE, FALSE)>>),
      ClassDeclaration("identifier", "Widget", "React.Component",
                       <<Site("return", "element", FALSE, TRUE)>>) }

\* Files of one to MaxDecls declarations, some of them with the directive.
AnnotateFiles ==
    UNION {{WithDirectives(SourceFile(im, ds), dirs) : dirs \in SUBSET (1..Len(ds))} :
           im \in SampleImports,
           ds \in {ds \in SeqsUpTo(AnnotateDeclarations, MaxDecls) :
                     /\ Len(ds) >= 1
                     /\ \A i, j \in 1..Len(ds) : i # j => ds[i].name # ds[j].name}}

AnnotateInit ==
    /\ nProvider \in {"cohere", "gemini"}
    /\ nOtherFiles \in BOOLEAN
    /\ nFile \in AnnotateFiles
    /\ nPrev = nFile
    /\ nComponents = <<>>
    /\ nCursor = 0
    /\ nStage = "start"
    /\ nInFlight = {}
    /\ nIssued = <<>>
    /\ nAnswer = NoAnswer
    /\ nApplied = [written |-> FALSE, failed |-> FALSE, component |-> 0]

\* annotateCommand: componentsToAnalyze; the command exits when it is empty.
FindComponents ==
    /\ nStage = "start"
    /\ nComponents' = findComponentsWithDirectives(nFile)
    /\ nStage' = IF nComponents' = <<>> THEN "exit" ELSE "validate"
    /\ UNCHANGED <<nProvider, nOtherFiles, nFile, nPrev, nCursor, nInFlight, nIssued,
                   nAnswer, nApplied>>

\* const isValidKey = await validateApiKey(...): the request is sent.
ValidateApiKey ==
    /\ nStage = "validate"
    /\ nInFlight' = nInFlight \cup {Request("validate", 0)}
    /\ nIssued' = Append(nIssued, Request("validate", 0))
    /\ nStage' = "keyChecked"
    /\ UNCHANGED <<nProvider, nOtherFiles, nFile, nPrev, nComponents, nCursor, nAnswer,
                   nApplied>>

\* A request settles: response, error or timeout.
Settle ==
    /\ \E request \in nInFlight :
         /\ nInFlight' = nInFlight \ {request}
         /\ nAnswer' \in Responses(request, nComponents)
    /\ UNCHANGED <<nProvider, nOtherFiles, nFile, nPrev, nComponents, nCursor, nStage,
                   nIssued, nApplied>>

\* if (!isValidKey) process.exit(1)
CheckKey ==
    /\ nStage = "keyChecked"
    /\ awaited(nInFlight)
    /\ IF nAnswer.ok
       THEN nStage' = "gather" /\ nCursor' = 1
       ELSE nStage' = "exit" /\ nCursor' = nCursor
    /\ UNCHANGED <<nProvider, nOtherFiles, nFile, nPrev, nComponents, nInFlight, nIssued,
                   nAnswer, nApplied>>

\* gatherCodebaseContext, one turn of the loop up to
\* await findRelatedFiles(...).
GatherCodebaseContext ==
    /\ nStage = "gather"
    /\ IF findRelatedFiles(nProvider, nOtherFiles)
       THEN /\ nInFlight' = nInFlight \cup {Request("rerank", nCursor)}
            /\ nIssued' = Append(nIssued, Request("rerank", nCursor))
            /\ nStage' = "reranked"
            /\ nCursor' = nCursor
       ELSE /\ nStage' = IF nCursor = Len(nComponents) THEN "enhance" ELSE "gather"
            /\ nCursor' = IF nCursor = Len(nComponents) THEN 1 ELSE nCursor + 1
            /\ UNCHANGED <<nInFlight, nIssued>>
    /\ UNCHANGED <<nProvider, nOtherFiles, nFile, nPrev, nComponents, nAnswer, nApplied>>

\* gatherCodebaseContext: contextMap.set(...) and the next turn.
StoreContext ==
    /\ nStage = "reranked"
    /\ awaited(nInFlight)
    /\ nStage' = IF nCursor = Len(nComponents) THEN "enhance" ELSE "gather"
    /\ nCursor' = IF nCursor = Len(nComponents) THEN 1 ELSE nCursor + 1
    /\ UNCHANGED <<nProvider, nOtherFiles, nFile, nPrev, nComponents, nInFlight, nIssued,
                   nAnswer, nApplied>>

\* annotateCommand's component loop up to await enhanceComponentWithLLM(...).
EnhanceComponentWithLLM ==
    /\ nStage = "enhance"
    /\ nInFlight' = nInFlight \cup {Request("generate", nCursor)}
    /\ nIssued' = Append(nIssued, Request("generate", nCursor))
    /\ nStage' = "generated"
    /\ UNCHANGED <<nProvider, nOtherFiles, nFile, nPrev, nComponents, nCursor, nAnswer,
                   nApplied>>

\* annotateCommand's component loop from the answer on: applyEnhancement
\* inside the per-component try, and the next turn.
ApplyAnswer ==
    /\ nStage = "generated"
    /\ awaited(nInFlight)
    /\ IF nAnswer.ok
       THEN \E r \in {applyEnhancement(nFile, nAnswer.code)} :
               /\ nFile' = IF r.written THEN r.content ELSE nFile
               /\ nApplied' = [written |-> r.written, failed |-> r.failed,
                               component |-> nCursor]
       ELSE /\ nFile' = nFile
            /\ nApplied' = [written |-> FALSE, failed |-> TRUE, component |-> nCursor]
    /\ nPrev' = nFile
    /\ nStage' = IF nCursor = Len(nComponents) THEN "done" ELSE "enhance"
    /\ nCursor' = IF nCursor = Len(nComponents) THEN nCursor ELSE nCursor + 1
    /\ UNCHANGED <<nProvider, nOtherFiles, nComponents, nInFlight, nIssued, nAnswer>>

AnnotateNext ==
    \/ FindComponents
    \/ ValidateApiKey
    \/ Settle
    \/ CheckKey
    \/ GatherCodebaseContext
    \/ StoreContext
    \/ EnhanceComponentWithLLM
    \/ ApplyAnswer

AnnotateIdle ==
    /\ nProvider = "cohere"
    /\ nOtherFiles = FALSE
    /\ nFile = WithDirectives(SourceFile(<<>>, <<>>), {})
    /\ nPrev = WithDirectives(SourceFile(<<>>, <<>>), {})
    /\ nComponents = <<>>
    /\ nCursor = 0
    /\ nStage = "idle"
    /\ nInFlight = {}
    /\ nIssued = <<>>
    /\ nAnswer = NoAnswer
    /\ nApplied = [written |-> FALSE, failed |-> FALSE, component |-> 0]

-----------------------------------------------------------------------------
(* Analyzer metadata: enhanceWithAI and the provider registry.              *)

\* ai/index.js isAIAvailable()
isAIAvailable(providers) == providers.gemini \/ providers.cohere

\* ai/index.js getBestProvider()
getBestProvider(providers) ==
    IF providers.gemini THEN "gemini"
    ELSE IF providers.cohere THEN "cohere"
    ELSE "null"

\* ai/index.js initializeProviders(options): builds the answer and leaves the
\* registry as it was.
initializeProviders(providers, geminiApiKey, cohereApiKey) == providers

\* The registering initializeProviders(options): marks the providers whose key
\* is given as available in the registry itself.
initializeProvidersRegistering(providers, geminiApiKey, cohereApiKey) ==
    [gemini |-> providers.gemini \/ geminiApiKey,
     cohere |-> providers.cohere \/ cohereApiKey]

\* analyze.js inferInteractions(code)
inferInteractions(code) ==
    (IF includes(code, "onClick") THEN <<"click">> ELSE <<>>)
    \o (IF includes(code, "onChange") THEN <<"change">> ELSE <<>>)
    \o (IF includes(code, "onSubmit") THEN <<"submit">> ELSE <<>>)
    \o (IF includes(code, "onHover") \/ includes(code, "onMouseOver")
        THEN <<"hover">> ELSE <<>>)
    \o (IF includes(code, "onFocus") THEN <<"focus">> ELSE <<>>)
    \o (IF includes(code, "onBlur") THEN <<"blur">> ELSE <<>>)
    \o (IF includes(code, "onKeyDown") \/ includes(code, "onKeyPress")
        THEN <<"keyboard">> ELSE <<>>)
    \o (IF includes(code, "onDrag") THEN <<"drag">> ELSE <<>>)
    \o (IF includes(code, "onDrop") THEN <<"drop">> ELSE <<>>)

\* eventHandlers.filter(h => h.startsWith('on')).map(h => h.replace(/^on/, '').toLowerCase())
interactionsOfHandlers(eventHandlers) ==
    MapSeq(LAMBDA h : toLowerCase(SubSeq(h, 3, Len(h))),
           SelectSeq(eventHandlers, LAMBDA h : startsWith(h, "on")))

\* analyze.js determineComplexity(component)
determineComplexity(component) ==
    IF component.jsxElements <= 3 /\ Len(component.eventHandlers) <= 1 THEN "low"
    ELSE IF component.jsxElements <= 10 /\ Len(component.eventHandlers) <= 5 THEN "medium"
    ELSE "high"

\* analyze.js determineAccessibilityLevel(component)
determineAccessibilityLevel(component) == "medium"

\* analyze.js suggestImprovements(component): the purpose read is the one the
\* extractor left on the component, not the one being inferred.
suggestImprovements(component) ==
    (IF      includes(component.purpose, "button") THEN <<"button-name", "button-aria-label">>
     ELSE IF includes(component.purpose, "input")  THEN <<"input-label", "input-describedby">>
     ELSE IF includes(component.purpose, "list")   THEN <<"list-semantics", "list-keyboard">>
     ELSE IF includes(component.purpose, "table")  THEN <<"table-headers", "table-caption">>
     ELSE IF includes(component.purpose, "modal")  THEN <<"modal-focus", "modal-aria">>
     ELSE <<>>)
    \o <<"data-testid">>

\* analyze.js determineContentType(component)
determineContentType(component) ==
    LET purpose == component.purpose IN
    IF      includes(purpose, "data-") \/ includes(purpose, "table") THEN "data"
    ELSE IF includes(purpose, "navigation") THEN "navigation"
    ELSE IF includes(purpose, "form") \/ includes(purpose, "input") THEN "input"
    ELSE IF includes(purpose, "button") \/ includes(purpose, "action") THEN "action"
    ELSE IF includes(purpose, "display") \/ includes(purpose, "card") THEN "display"
    ELSE IF includes(purpose, "layout") \/ includes(purpose, "container") THEN "layout"
    ELSE "content"

\* createMetadata({name, purpose, interactions, semantics}); the timestamp of
\* the call is left out of the record.
createMetadata(name, purpose, interactions, semantics) ==
    [name |-> name, purpose |-> purpose, interactions |-> interactions,
     semantics |-> semantics, version |-> "0.1.0"]

\* analyze.js fallbackAnalysis(component)
fallbackAnalysis(component) ==
    createMetadata(component.name,
                   inferPurposeAnalyzer(component.name),
                   interactionsOfHandlers(component.eventHandlers),
                   [aiGenerated |-> FALSE,
                    accessibilityLevel |-> "medium",
                    complexity |-> determineComplexity(component)])

\* analyze.js analyzeWithGemini(component, options)
analyzeWithGemini(component) ==
    createMetadata(component.name,
                   inferPurposeAnalyzer(component.name),
                   interactionsOfHandlers(component.eventHandlers),
                   [aiGenerated |-> TRUE,
                    aiModel |-> "gemini",
                    accessibilityLevel |-> determineAccessibilityLevel(component),
                    complexity |-> determineComplexity(component),
                    suggestedImprovements |-> suggestImprovements(component)])

\* analyze.js analyzeWithCohere(component, options)
analyzeWithCohere(component) ==
    createMetadata(component.name,
                   inferPurposeAnalyzer(component.name),
                   interactionsOfHandlers(component.eventHandlers),
                   [aiGenerated |-> TRUE,
                    aiModel |-> "cohere",
                    accessibilityLevel |-> determineAccessibilityLevel(component),
                    complexity |-> determineComplexity(component),
                    suggestedImprovements |-> suggestImprovements(component),
                    contentType |-> determineContentType(component)])

\* analyze.js analyzeComponentWithAI(component, options); callThrows tells
\* whether the provider call rejects.
analyzeComponentWithAI(component, providers, callThrows) ==
    LET provider == getBestProvider(providers) IN
    IF ~isAIAvailable(providers) THEN fallbackAnalysis(component)
    ELSE IF provider = "null" THEN fallbackAnalysis(component)
    ELSE IF callThrows THEN fallbackAnalysis(component)
    ELSE IF provider = "gemini" THEN analyzeWithGemini(component)
    ELSE analyzeWithCohere(component)

\* analyze.js enhanceWithAI, the part after the AI branch: the enhancement
\* made without AI.
basicEnhancement(component) ==
    createMetadata(component.name,
                   inferPurposeAnalyzer(component.name),
                   inferInteractions(component.code),
                   [accessibilityLevel |-> "medium", complexity |-> "low"])

\* analyze.js enhanceWithAI(component, options): component.metadata
enhanceWithAI(component, providers, useAI, callThrows) ==
    IF isAIAvailable(providers) /\ useAI # "false"
    THEN analyzeComponentWithAI(component, providers, callThrows)
    ELSE basicEnhancement(component)

\* The handler lists of the analysed components.
SampleHandlers == { <<>>, <<"onClick">>, <<"onMouseOver">>, <<"onKeyDown", "onClick">>,
                    <<"onClick", "onChange">> }

\* Numbers of JSX elements below the root of the analysed components.
SampleChildren == {0, 4}

AnalyzerComponents ==
    {visitDeclarationAnalyzer(
        [Declaration("FunctionDeclaration", "none", "identifier", n, "block",
                     <<Site("return", "element", FALSE, FALSE)>>)
            EXCEPT !.jsxAttrs = hs, !.children = k]) :
        n \in Names, hs \in SampleHandlers, k \in SampleChildren}

NoMetadata == createMetadata("", "", <<>>, [accessibilityLevel |-> "", complexity |-> ""])

AnalyzerInit ==
    /\ aComponent \in AnalyzerComponents
    /\ aProviders = [gemini |-> FALSE, cohere |-> FALSE]
    /\ aKeys \in [gemini : BOOLEAN, cohere : BOOLEAN]
    /\ aUseAI \in {"undefined", "true", "false"}
    /\ aCallThrows \in BOOLEAN
    /\ aStage = "input"
    /\ aMetadata = NoMetadata

\* The command's start: the API keys found in the environment are handed to
\* initializeProviders, in either of its two implementations.
InitializeProviders ==
    /\ aStage = "input"
    /\ \/ aProviders' = initializeProviders(aProviders, aKeys.gemini, aKeys.cohere)
       \/ aProviders' = initializeProvidersRegistering(aProviders, aKeys.gemini, aKeys.cohere)
    /\ aStage' = "initialized"
    /\ UNCHANGED <<aComponent, aKeys, aUseAI, aCallThrows, aMetadata>>

\* analyzeFile's loop body: enhanceWithAI(component, options).
EnhanceWithAI ==
    /\ aStage = "initialized"
    /\ aMetadata' = enhanceWithAI(aComponent, aProviders, aUseAI, aCallThrows)
    /\ aStage' = "enhanced"
    /\ UNCHANGED <<aComponent, aProviders, aKeys, aUseAI, aCallThrows>>

AnalyzerNext == InitializeProviders \/ EnhanceWithAI

AnalyzerIdle ==
    /\ aComponent = [result |-> "null"]
    /\ aProviders = [gemini |-> FALSE, cohere |-> FALSE]
    /\ aKeys = [gemini |-> FALSE, cohere |-> FALSE]
    /\ aUseAI = "undefined"
    /\ aCallThrows = FALSE
    /\ aStage = "idle"
    /\ aMetadata = NoMetadata

-----------------------------------------------------------------------------
(* Files and trees.  A tree maps the paths relative to its root to file     *)
(* contents; an absolute path names the tree and the relative path.         *)

ManifestPath == "package.json"
ReadmePath   == "README.md"

AbsPath(tree, rel) == [tree |-> tree, path |-> rel]

EmptyTree == [p \in {} |-> p]

pathExists(tree, rel) == rel \in DOMAIN tree

writeFile(tree, rel, content) ==
    [p \in DOMAIN tree \cup {rel} |-> IF p = rel THEN content ELSE tree[p]]

\* path.basename of a path below src/
basename(rel) == IF startsWith(rel, "src/") THEN SubSeq(rel, 5, Len(rel)) ELSE rel

\* path.join(outputPath, path.relative(sourcePath, sourceFilePath))
destFilePathOf(sourceFilePath) == AbsPath("output", sourceFilePath.path)

\* path.join(outputPath, path.relative(outputPath, entryFile)): the relative
\* path climbs out of outputPath and the join resolves it again, so the
\* result is entryFile itself.
outputFilePathOf(entryFile) == entryFile

\* package.json as far as the phases read it.
Manifest(name, react) ==
    [kind |-> "json", name |-> name, react |-> react, aartisan |-> FALSE]

\* The order in which findFiles meets the files of the source tree.
ScanOrder == <<"src/App.jsx", "src/Card.jsx", "src/index.jsx", "src/main.jsx">>

EntryPointNames == {"main.jsx", "main.tsx", "index.jsx", "index.tsx", "App.jsx", "App.tsx"}
MainEntryNames  == {"main.jsx", "main.tsx", "index.jsx", "index.tsx"}

\* analyzeProjectStructure, findFiles: componentFiles and entryPoints.
findFiles(tree) ==
    LET found == SelectSeq(ScanOrder, LAMBDA p : pathExists(tree, p)) IN
    [componentFiles |-> MapSeq(LAMBDA p : AbsPath("source", p), found),
     entryPoints    |-> MapSeq(LAMBDA p : AbsPath("source", p),
                               SelectSeq(found, LAMBDA p : basename(p) \in EntryPointNames))]

\* A manifest check that rejects only when package.json is missing.
manifestRejectsIfMissing(tree) == ~pathExists(tree, ManifestPath)

\* analyzeProjectStructure: does reading the manifest throw.
manifestRejects(tree) ==
    IF pathExists(tree, ManifestPath)
    THEN ~tree[ManifestPath].react
    ELSE TRUE

-----------------------------------------------------------------------------
(* Render-Root Wrapper.  The calls of an entry file are kept in source      *)
(* order; an argument is a JSX element (the chain of element names from the *)
(* outermost inwards), an identifier, or any other expression.              *)

JSXArg(chain)  == [kind |-> "jsx", chain |-> chain]
IdentArg(name) == [kind |-> "identifier", chain |-> <<name>>]
OtherArg       == [kind |-> "other", chain |-> <<>>]

Call(callee, args) == [callee |-> callee, args |-> args]

\* port.js isWrappedWithAartisanProvider(node)
isWrappedWithAartisanProvider(node) ==
    node.kind = "jsx" /\ node.chain[1] = "AartisanProvider"

\* port.js wrapWithAartisanProvider(node, context)
wrapWithAartisanProvider(node) ==
    IF node.kind = "jsx" THEN JSXArg(<<"AartisanProvider">> \o node.chain)
    ELSE IF node.kind = "identifier" THEN JSXArg(<<"AartisanProvider">> \o node.chain)
    ELSE node

\* The Program visitor's test: AartisanProvider imported from a toolkit module.
hasAartisanImport(imports) ==
    \E i \in 1..Len(imports) :
        /\ includes(imports[i].source, "aartisan")
        /\ \E j \in 1..Len(imports[i].specifiers) :
              imports[i].specifiers[j].imported = "AartisanProvider"

\* The four detectors: the argument position a call offers to the detector
\* (0: the call is not of its shape, or offers nothing to wrap).
detects(d, call) ==
    LET n == Len(call.args) IN
    IF d = 1
    THEN IF call.callee \in {"createRoot().render", "ReactDOM.createRoot().render"} /\ n > 0
         THEN (IF isWrappedWithAartisanProvider(call.args[1]) THEN 0 ELSE 1) ELSE 0
    ELSE IF d = 2
    THEN IF call.callee = "ReactDOM.render" /\ n >= 2
         THEN (IF isWrappedWithAartisanProvider(call.args[1]) THEN 0 ELSE 1) ELSE 0
    ELSE IF d = 3
    THEN IF call.callee = "render" /\ n >= 1
         THEN (IF isWrappedWithAartisanProvider(call.args[1]) THEN 0 ELSE 1) ELSE 0
    ELSE IF call.callee \in {"hydrateRoot", "hydrate", "renderToDOM",
                             "ReactDOM.hydrateRoot", "ReactDOM.hydrate"}
         THEN IF n >= 2
              THEN (IF call.args[2].kind = "jsx" /\ ~isWrappedWithAartisanProvider(call.args[2])
                    THEN 2 ELSE 0)
              ELSE IF n >= 1
              THEN (IF call.args[1].kind = "jsx" /\ ~isWrappedWithAartisanProvider(call.args[1])
                    THEN 1 ELSE 0)
              ELSE 0
    ELSE 0

\* One detector's traversal: the first call, in source order, it wraps (0: none).
firstHit(d, calls) ==
    LET hits == {i \in 1..Len(calls) : detects(d, calls[i]) # 0}
    IN  IF hits = {} THEN 0 ELSE CHOOSE i \in hits : \A j \in hits : i <= j

\* A detector order that prefers the lowest priority.
firstDetectorReversed(calls) ==
    LET ds == {d \in 1..4 : firstHit(d, calls) # 0}
    IN  IF ds = {} THEN 0 ELSE CHOOSE d \in ds : \A e \in ds : d >= e

\* The detector that finds a call to wrap, in priority order (0: none).
firstDetector(calls) ==
    LET ds == {d \in 1..4 : firstHit(d, calls) # 0}
    IN  IF ds = {} THEN 0 ELSE CHOOSE d \in ds : \A e \in ds : d <= e

\* integrateAartisanProvider, the body of the loop over the entry files up to
\* the write: the new text, modified and rootElementFound.
integrateEntryFile(content) ==
    LET importAdded == ~hasAartisanImport(content.imports)
        withImport  == IF importAdded
                       THEN [content EXCEPT !.imports =
                               <<Import("aartisan/react", <<Named("AartisanProvider")>>)>> \o @]
                       ELSE content
        wrapAt(d, i, k) == [withImport EXCEPT !.calls[i].args[k] = wrapWithAartisanProvider(@)]
        ast(d)      == IF d = 0 THEN withImport
                       ELSE The({ wrapAt(d, i, detects(d, content.calls[i])) :
                                  i \in {firstHit(d, content.calls)} })
    IN  The({ [content |-> IF importAdded \/ d # 0 THEN generate(ast(d)) ELSE content,
               modified |-> importAdded \/ d # 0,
               rootElementFound |-> d # 0] :
              d \in {firstDetector(content.calls)} })

\* The candidates createWrapperFile probes, in order.
AppFileCandidates   == <<"src/App.tsx", "src/App.jsx", "src/app.tsx", "src/app.jsx">>
EntryFileCandidates == <<"src/main.tsx", "src/main.jsx", "src/index.tsx", "src/index.jsx">>

\* The first candidate that exists in the tree ("": none).
firstExisting(tree, candidates) ==
    LET hits == {i \in 1..Len(candidates) : pathExists(tree, candidates[i])}
    IN  IF hits = {} THEN "" ELSE candidates[CHOOSE i \in hits : \A j \in hits : i <= j]

\* path.extname
extname(rel) == SubSeq(rel, Len(rel) - 3, Len(rel))

\* The three replacements of createWrapperFile on one import line.
redirectImport(imp) ==
    IF imp.source \in {"./App", "./app"} /\ imp.specifiers = <<Default("App")>>
    THEN [imp EXCEPT !.source = "./AartisanApp"]
    ELSE IF imp.source = "./App" /\ imp.specifiers = <<Named("App")>>
    THEN [imp EXCEPT !.source = "./AartisanApp"]
    ELSE imp

\* The text of the wrapper file.
wrapperContent(appFileName) ==
    [imports |-> <<Import("aartisan/react", <<Named("AartisanProvider")>>),
                   Import("./" \o appFileName, <<Default(appFileName)>>)>>,
     decls   |-> <<Declaration("FunctionDeclaration", "none", "identifier", "AartisanApp",
                               "block", <<Site("return", "element", FALSE, FALSE)>>)>>,
     printed |-> FALSE, parses |-> TRUE, calls |-> <<>>]

\* port.js createWrapperFile(context) on the output tree: the tree it leaves,
\* the paths it wrote, whether it threw (no App file), and whether it warned
\* (no entry file to redirect).
createWrapperFile(out) ==
    LET ext(appFilePath)         == extname(appFilePath)
        wrapperPath(appFilePath) == "src/AartisanApp" \o ext(appFilePath)
        appFileName(appFilePath) ==
            SubSeq(basename(appFilePath), 1,
                   Len(basename(appFilePath)) - Len(ext(appFilePath)))
        updateEntry(tree, wrapperFilePath) ==
            The({ IF entryFile = ""
                  THEN [tree |-> tree, writes |-> {wrapperFilePath}, threw |-> FALSE,
                        warned |-> TRUE]
                  ELSE [tree |-> writeFile(tree, entryFile,
                                   [tree[entryFile] EXCEPT !.imports = MapSeq(redirectImport, @)]),
                        writes |-> {wrapperFilePath, entryFile},
                        threw |-> FALSE, warned |-> FALSE] :
                  entryFile \in {firstExisting(tree, EntryFileCandidates)} })
    IN  The({ IF appFilePath = ""
              THEN [tree |-> out, writes |-> {}, threw |-> TRUE, warned |-> FALSE]
              ELSE The({ updateEntry(withWrapper, wrapperPath(appFilePath)) :
                         withWrapper \in {writeFile(out, wrapperPath(appFilePath),
                                                    wrapperContent(appFileName(appFilePath)))} }) :
              appFilePath \in {firstExisting(out, AppFileCandidates)} })

\* The state the loop over the entry files threads: both trees, the paths
\* written, integrationSuccessful, and whether a detector wrapped a call.
readAbs(st, abs) == IF abs.tree = "source" THEN st.src ELSE st.out

writeAbs(st, abs, content) ==
    IF abs.tree = "source"
    THEN [st EXCEPT !.src = writeFile(@, abs.path, content),
                    !.srcWrites = @ \cup {abs.path}]
    ELSE [st EXCEPT !.out = writeFile(@, abs.path, content),
                    !.outWrites = @ \cup {abs.path}]

\* integrateAartisanProvider, the loop over filesToCheck.  A file that cannot
\* be read or parsed lands in the catch and the loop goes on.
RECURSIVE integrateEntries(_, _)
integrateEntries(files, st) ==
    IF files = <<>> THEN st
    ELSE LET outputFilePath == outputFilePathOf(Head(files))
             tree           == readAbs(st, outputFilePath)
             written(r)     == [writeAbs(st, outputFilePath, r.content)
                                  EXCEPT !.successful = TRUE,
                                         !.wrapped = @ \/ r.rootElementFound]
         IN  IF ~pathExists(tree, outputFilePath.path) THEN integrateEntries(Tail(files), st)
             ELSE IF ~tree[outputFilePath.path].parses THEN integrateEntries(Tail(files), st)
             ELSE The({ IF ~r.modified THEN integrateEntries(Tail(files), st)
                        ELSE The({ IF r.rootElementFound THEN done
                                   ELSE integrateEntries(Tail(files), done) :
                                   done \in {written(r)} }) :
                        r \in {integrateEntryFile(tree[outputFilePath.path])} })

\* A phase 4 whose call of createWrapperFile is not inside a try: the
\* exception for the missing App file leaves the phase.
integrateAartisanProviderUncaught(ctx, opts, src, out) ==
    LET st0 == [src |-> src, out |-> out, srcWrites |-> {}, outWrites |-> {},
                successful |-> FALSE, wrapped |-> FALSE, fallbackRan |-> FALSE,
                warned |-> FALSE, threw |-> FALSE]
        mainEntryFiles ==
            SelectSeq(ctx.entryPoints,
                      LAMBDA f : toLowerCase(basename(f.path)) \in MainEntryNames)
        filesToCheck == IF Len(mainEntryFiles) > 0 THEN mainEntryFiles ELSE ctx.entryPoints
        fallback(st1) ==
            The({ [st1 EXCEPT !.out = w.tree,
                              !.outWrites = @ \cup w.writes,
                              !.successful = ~w.threw,
                              !.fallbackRan = TRUE,
                              !.warned = w.warned,
                              !.threw = w.threw] :
                  w \in {createWrapperFile(st1.out)} })
        \* if (!integrationSuccessful) console.warn(manual instructions)
        finish(st2) == [st2 EXCEPT !.warned = @ \/ ~st2.successful]
    IN  IF Len(ctx.entryPoints) = 0 THEN [st0 EXCEPT !.warned = TRUE]
        ELSE The({ finish(IF ~st1.successful /\ opts.createWrapper # "false"
                          THEN fallback(st1) ELSE st1) :
                   st1 \in {integrateEntries(filesToCheck, st0)} })

\* port.js integrateAartisanProvider(context): the exception of
\* createWrapperFile is caught, so the phase itself never throws.
integrateAartisanProvider(ctx, opts, src, out) ==
    LET st0 == [src |-> src, out |-> out, srcWrites |-> {}, outWrites |-> {},
                successful |-> FALSE, wrapped |-> FALSE, fallbackRan |-> FALSE,
                warned |-> FALSE, threw |-> FALSE]
        mainEntryFiles ==
            SelectSeq(ctx.entryPoints,
                      LAMBDA f : toLowerCase(basename(f.path)) \in MainEntryNames)
        filesToCheck == IF Len(mainEntryFiles) > 0 THEN mainEntryFiles ELSE ctx.entryPoints
        fallback(st1) ==
            The({ [st1 EXCEPT !.out = w.tree,
                              !.outWrites = @ \cup w.writes,
                              !.successful = ~w.threw,
                              !.fallbackRan = TRUE,
                              !.warned = w.warned] :
                  w \in {createWrapperFile(st1.out)} })
        \* if (!integrationSuccessful) console.warn(manual instructions)
        finish(st2) == [st2 EXCEPT !.warned = @ \/ ~st2.successful]
    IN  IF Len(ctx.entryPoints) = 0 THEN [st0 EXCEPT !.warned = TRUE]
        ELSE The({ finish(IF ~st1.successful /\ opts.createWrapper # "false"
                          THEN fallback(st1) ELSE st1) :
                   st1 \in {integrateEntries(filesToCheck, st0)} })

\* port.js simulateAIAnalysis(component, providerId)
simulateAIAnalysis(component, providerId) ==
    [enhancedPurpose |-> component.purpose,
     recommendations |->
        IF component.purpose = "action-button" THEN <<"accessible-name", "aria-role">>
        ELSE IF component.purpose = "input-field" THEN <<"label", "error-messages">>
        ELSE <<>>,
     providerId |-> providerId]

\* A first pass in which a file that fails discards the entries recorded
\* before it.
firstPassEntryAborting(componentMap, sourceFilePath, content) ==
    The({ IF ~found.ok THEN <<>>
          ELSE IF Len(found.components) > 0
          THEN Append(componentMap,
                      [key |-> destFilePathOf(sourceFilePath),
                       components |-> found.components,
                       content |-> content,
                       sourceFilePath |-> sourceFilePath])
          ELSE componentMap :
          found \in {identifyComponents(content)} })

\* transformComponents, first pass over one file: componentMap.set(destFilePath, ...)
\* when components were found; the catch leaves the map as it was.
firstPassEntry(componentMap, sourceFilePath, content) ==
    The({ IF found.ok /\ Len(found.components) > 0
          THEN Append(componentMap,
                      [key |-> destFilePathOf(sourceFilePath),
                       components |-> found.components,
                       content |-> content,
                       sourceFilePath |-> sourceFilePath])
          ELSE componentMap :
          found \in {identifyComponents(content)} })

\* The destination the second pass cannot write when the file system faults
\* in phase 3.
FaultyPath == "src/App.jsx"

\* fs.ensureDir / fs.writeFile of the second pass reject for this destination.
writeFails(fault, rel) == fault = 3 /\ rel = FaultyPath

\* The keys of a componentMap.
Keys(componentMap) == {componentMap[i].key : i \in 1..Len(componentMap)}

\* A loop that logs the failure of a phase and goes on to the next one.
afterPhaseSwallowing(k, rejected) ==
    IF k = 6 THEN "done" ELSE "ready"

\* portProject's loop: where control goes after phase k returned or threw.
afterPhase(k, rejected) ==
    IF rejected THEN "rejected"
    ELSE IF k = 6 THEN "done"
    ELSE "ready"

NewContext ==
    [projectInfo |-> [packageJson |-> [kind |-> "unset"]],
     componentMap |-> <<>>,
     componentFiles |-> <<>>,
     entryPoints |-> <<>>]

\* for (const phase of phases): the loop starts phase k.
StartPhase(k) ==
    /\ pc = "ready"
    /\ phase = k - 1
    /\ phase' = k
    /\ started' = Append(started, k)

\* phase k returned (spinner.succeed) or threw (spinner.fail; throw error).
FinishPhase(k, rejected) ==
    /\ pc' = afterPhase(k, rejected)
    /\ threw' = IF rejected THEN k ELSE threw
    /\ returned' = IF rejected THEN returned ELSE Append(returned, k)

\* Phase 1: analyzeProjectStructure(context)
AnalyzeProjectStructure ==
    /\ StartPhase(1)
    /\ FinishPhase(1, manifestRejects(srcTree))
    /\ context' =
         IF ~pathExists(srcTree, ManifestPath) THEN context
         ELSE IF manifestRejects(srcTree)
         THEN [context EXCEPT !.projectInfo.packageJson = srcTree[ManifestPath]]
         ELSE [context EXCEPT !.projectInfo.packageJson = srcTree[ManifestPath],
                              !.componentFiles = findFiles(srcTree).componentFiles,
                              !.entryPoints = findFiles(srcTree).entryPoints]
    /\ UNCHANGED <<project, options, registry, fsFault, localMap, cursor, srcTree, outTree,
                   outWrites, srcWrites, fallbackRan, wrapped, warned, integrated, runs>>

\* Phase 2: copyProjectFiles(context).  ensureDir rejects when the file
\* system faults in this phase; otherwise every source file is copied over
\* the output tree.
CopyProjectFiles ==
    /\ StartPhase(2)
    /\ FinishPhase(2, fsFault = 2)
    /\ IF fsFault = 2
       THEN UNCHANGED <<outTree, outWrites>>
       ELSE /\ outTree' = [p \in DOMAIN outTree \cup DOMAIN srcTree |->
                              IF p \in DOMAIN srcTree THEN srcTree[p] ELSE outTree[p]]
            /\ outWrites' = outWrites \cup DOMAIN srcTree
    /\ UNCHANGED <<project, options, registry, fsFault, context, localMap, cursor, srcTree,
                   srcWrites, fallbackRan, wrapped, warned, integrated, runs>>

\* Phase 3 begins: transformComponents(context) creates its local map.
BeginTransform ==
    /\ StartPhase(3)
    /\ pc' = "identify"
    /\ localMap' = <<>>
    /\ cursor' = 1
    /\ UNCHANGED <<project, options, registry, fsFault, returned, threw, context, srcTree,
                   outTree, outWrites, srcWrites, fallbackRan, wrapped, warned, integrated, runs>>

\* First pass, one file of componentFiles: read from the source path.
IdentifyFile ==
    /\ pc = "identify"
    /\ cursor <= Len(context.componentFiles)
    /\ \E sourceFilePath \in {context.componentFiles[cursor]} :
         localMap' = firstPassEntry(localMap, sourceFilePath, srcTree[sourceFilePath.path])
    /\ cursor' = cursor + 1
    /\ UNCHANGED <<project, options, registry, fsFault, pc, phase, started, returned, threw,
                   context, srcTree, outTree, outWrites, srcWrites, fallbackRan, wrapped, warned,
                   integrated, runs>>

\* context.componentMap = componentMap, between the two passes.
PublishComponentMap ==
    /\ pc = "identify"
    /\ cursor > Len(context.componentFiles)
    /\ context' = [context EXCEPT !.componentMap = localMap]
    /\ pc' = "enhance"
    /\ cursor' = 1
    /\ UNCHANGED <<project, options, registry, fsFault, phase, started, returned, threw,
                   localMap, srcTree, outTree, outWrites, srcWrites, fallbackRan, wrapped, warned,
                   integrated, runs>>

\* Second pass, one entry of the map: the AI suggestions are attached to the
\* descriptors, the components are enhanced and the file is written when its
\* content changed; a rejected write is caught by the per-file catch.
\* localMap and context.componentMap are the same object.
EnhanceEntry ==
    /\ pc = "enhance"
    /\ cursor <= Len(context.componentMap)
    /\ \E fileInfo \in {context.componentMap[cursor]}, provider \in {getBestProvider(registry)} :
         \E r \in {enhanceFile(fileInfo.content, fileInfo.components, options.level)},
            components \in
              {IF isAIAvailable(registry) /\ provider # "null"
               THEN MapSeq(LAMBDA c : [name |-> c.name, type |-> c.type,
                                       result |-> c.result, purpose |-> c.purpose,
                                       eventHandlers |-> c.eventHandlers,
                                       jsxElements |-> c.jsxElements,
                                       aiSuggestions |-> simulateAIAnalysis(c, provider)],
                           fileInfo.components)
               ELSE fileInfo.components} :
           /\ context' = [context EXCEPT !.componentMap[cursor].components = components]
           /\ localMap' = [localMap EXCEPT ![cursor].components = components]
           /\ IF r.write /\ ~writeFails(fsFault, fileInfo.key.path)
              THEN /\ outTree' = writeFile(outTree, fileInfo.key.path, r.content)
                   /\ outWrites' = outWrites \cup {fileInfo.key.path}
              ELSE UNCHANGED <<outTree, outWrites>>
    /\ cursor' = cursor + 1
    /\ UNCHANGED <<project, options, registry, fsFault, pc, phase, started, returned, threw,
                   srcTree, srcWrites, fallbackRan, wrapped, warned, integrated, runs>>

\* Phase 3 returns.
EndTransform ==
    /\ pc = "enhance"
    /\ cursor > Len(context.componentMap)
    /\ FinishPhase(3, FALSE)
    /\ UNCHANGED <<project, options, registry, fsFault, phase, started, context, localMap,
                   cursor, srcTree, outTree, outWrites, srcWrites, fallbackRan, wrapped, warned,
                   integrated, runs>>

\* Phase 4: integrateAartisanProvider(context)
IntegrateAartisanProvider ==
    /\ StartPhase(4)
    /\ \E st \in {integrateAartisanProvider(context, options, srcTree, outTree)} :
         /\ FinishPhase(4, st.threw)
         /\ srcTree' = st.src
         /\ outTree' = st.out
         /\ srcWrites' = srcWrites \cup st.srcWrites
         /\ outWrites' = outWrites \cup st.outWrites
         /\ fallbackRan' = st.fallbackRan
         /\ wrapped' = st.wrapped
         /\ warned' = st.warned
    /\ integrated' = integrated + 1
    /\ UNCHANGED <<project, options, registry, fsFault, context, localMap, cursor, runs>>

\* Phase 5: updateConfiguration(context).  The modelled projects name no
\* build system the phase configures, so only the manifest is rewritten.
UpdateConfiguration ==
    /\ StartPhase(5)
    /\ FinishPhase(5, fsFault = 5)
    /\ IF fsFault # 5 /\ pathExists(outTree, ManifestPath)
       THEN /\ outTree' = writeFile(outTree, ManifestPath,
                                    [outTree[ManifestPath] EXCEPT !.aartisan = TRUE])
            /\ outWrites' = outWrites \cup {ManifestPath}
       ELSE UNCHANGED <<outTree, outWrites>>
    /\ UNCHANGED <<project, options, registry, fsFault, context, localMap, cursor, srcTree,
                   srcWrites, fallbackRan, wrapped, warned, integrated, runs>>

\* Phase 6: finalizeProject(context): the README is created, or the toolkit
\* section appended to the one that is there.
FinalizeProject ==
    /\ StartPhase(6)
    /\ FinishPhase(6, fsFault = 6)
    /\ IF fsFault = 6 THEN UNCHANGED <<outTree, outWrites>>
       ELSE /\ outTree' = writeFile(outTree, ReadmePath,
                             IF pathExists(outTree, ReadmePath)
                             THEN [outTree[ReadmePath] EXCEPT !.sections = @ + 1]
                             ELSE [kind |-> "text", sections |-> 1])
            /\ outWrites' = outWrites \cup {ReadmePath}
    /\ UNCHANGED <<project, options, registry, fsFault, context, localMap, cursor, srcTree,
                   srcWrites, fallbackRan, wrapped, warned, integrated, runs>>

\* The command is run again on the same source and output directories; the
\* file-system fault may have been cleared in between.
PortAgain ==
    /\ pc \in {"done", "rejected"}
    /\ runs < MaxRuns
    /\ runs' = runs + 1
    /\ pc' = "ready"
    /\ phase' = 0
    /\ started' = <<>>
    /\ returned' = <<>>
    /\ threw' = 0
    /\ context' = NewContext
    /\ localMap' = <<>>
    /\ cursor' = 1
    /\ outWrites' = {}
    /\ srcWrites' = {}
    /\ fallbackRan' = FALSE
    /\ wrapped' = FALSE
    /\ warned' = FALSE
    /\ fsFault' \in {0, fsFault}
    /\ UNCHANGED <<project, options, registry, srcTree, outTree, integrated>>

PortNext ==
    \/ AnalyzeProjectStructure
    \/ CopyProjectFiles
    \/ BeginTransform
    \/ IdentifyFile
    \/ PublishComponentMap
    \/ EnhanceEntry
    \/ EndTransform
    \/ IntegrateAartisanProvider
    \/ UpdateConfiguration
    \/ FinalizeProject
    \/ PortAgain

-----------------------------------------------------------------------------
(* The projects the port command is run on.                                 *)

EntryImports ==
    <<Import("react-dom/client", <<Default("ReactDOM")>>),
      Import("./App", <<Default("App")>>)>>

ProviderImport == Import("aartisan/react", <<Named("AartisanProvider")>>)

EntryFile(imports, calls) ==
    [imports |-> imports, decls |-> <<>>, printed |-> FALSE, parses |-> TRUE,
     calls |-> calls]

\* The mount calls of the modelled entry files.
SampleEntryFiles ==
    { EntryFile(EntryImports,
                <<Call("ReactDOM.createRoot().render", <<JSXArg(<<"App">>)>>)>>),
      EntryFile(EntryImports,
                <<Call("createRoot().render", <<JSXArg(<<"StrictMode", "App">>)>>)>>),
      EntryFile(EntryImports,
                <<Call("createRoot().render", <<OtherArg>>)>>),
      EntryFile(EntryImports,
                <<Call("ReactDOM.render", <<JSXArg(<<"App">>), OtherArg>>)>>),
      EntryFile(EntryImports,
                <<Call("render", <<IdentArg("App")>>)>>),
      EntryFile(EntryImports,
                <<Call("hydrateRoot", <<OtherArg, JSXArg(<<"App">>)>>)>>),
      EntryFile(EntryImports,
                <<Call("ReactDOM.hydrate", <<JSXArg(<<"App">>), OtherArg>>)>>),
      EntryFile(EntryImports,
                <<Call("root.render", <<JSXArg(<<"App">>)>>)>>),
      EntryFile(EntryImports,
                <<Call("hydrate", <<JSXArg(<<"App">>)>>),
                  Call("render", <<JSXArg(<<"App">>)>>)>>),
      EntryFile(EntryImports, <<>>),
      EntryFile(<<ProviderImport>> \o EntryImports,
                <<Call("createRoot().render", <<JSXArg(<<"AartisanProvider", "App">>)>>)>>),
      [EntryFile(EntryImports, <<>>) EXCEPT !.parses = FALSE] }

AppFileContent ==
    SourceFile(<<Import("react", <<Default("React")>>)>>,
               <<Declaration("FunctionDeclaration", "none", "identifier", "App", "block",
                             <<Site("return", "element", FALSE, FALSE)>>)>>)

\* The other component file of the project.
SampleCardFiles ==
    { SourceFile(<<>>,
        <<WithJsxAttrs(
            Declaration("FunctionDeclaration", "none", "identifier", "DeleteButton", "block",
                        <<Site("return", "element", FALSE, FALSE)>>), <<"onClick">>)>>),
      SourceFile(<<>>,
        <<Declaration("FunctionDeclaration", "none", "null", "", "block",
                      <<Site("return", "element", FALSE, FALSE)>>),
          Declaration("VariableDeclarator", "arrow", "identifier", "Card", "block",
                      <<Site("return", "element", FALSE, FALSE)>>)>>),
      SourceFile(<<>>,
        <<Declaration("FunctionDeclaration", "none", "identifier", "Widget", "block",
                      <<Site("return", "other", FALSE, FALSE)>>)>>),
      [SourceFile(<<>>, <<>>) EXCEPT !.parses = FALSE] }

\* A tree from the files given as <<path, content>> pairs.
TreeOf(files) ==
    [p \in {f[1] : f \in files} |-> (CHOOSE f \in files : f[1] = p)[2]]

\* Source trees with a manifest that names react.
ReactProjects ==
    {TreeOf({<<ManifestPath, Manifest("shop", TRUE)>>} \cup app \cup card \cup main \cup index) :
        app   \in {{}, {<<"src/App.jsx", AppFileContent>>}},
        card  \in {{}} \cup {{<<"src/Card.jsx", c>>} : c \in SampleCardFiles},
        main  \in {{}} \cup {{<<"src/main.jsx", e>>} : e \in SampleEntryFiles},
        index \in {{}, {<<"src/index.jsx", EntryFile(EntryImports, <<>>)>>}}}

\* Source trees the first phase rejects: no manifest, or one without react.
RejectedProjects ==
    {TreeOf(manifest \cup {<<"src/App.jsx", AppFileContent>>} \cup main) :
        manifest \in {{}, {<<ManifestPath, Manifest("shop", FALSE)>>}},
        main     \in {{}, {<<"src/main.jsx",
                             EntryFile(EntryImports,
                                       <<Call("createRoot().render", <<JSXArg(<<"App">>)>>)>>)>>}}}

Projects == ReactProjects \cup RejectedProjects

\* Phases in which a file-system call fails (0: none does).  In phases 2, 5
\* and 6 the call is not guarded; in phase 3 it is the write of FaultyPath,
\* inside the per-file try of the second pass.
FaultPhases == {0, 2, 3, 5, 6}

PortInit ==
    /\ project \in Projects
    /\ options \in [level : Levels, createWrapper : {"undefined"}]
    /\ registry \in {[gemini |-> FALSE, cohere |-> FALSE], [gemini |-> TRUE, cohere |-> FALSE]}
    /\ fsFault \in FaultPhases
    /\ pc = "ready"
    /\ phase = 0
    /\ started = <<>>
    /\ returned = <<>>
    /\ threw = 0
    /\ context = NewContext
    /\ localMap = <<>>
    /\ cursor = 1
    /\ srcTree = project
    /\ outTree = EmptyTree
    /\ outWrites = {}
    /\ srcWrites = {}
    /\ fallbackRan = FALSE
    /\ wrapped = FALSE
    /\ warned = FALSE
    /\ integrated = 0
    /\ runs = 1

PortIdle ==
    /\ project = EmptyTree
    /\ options = [level |-> "standard", createWrapper |-> "undefined"]
    /\ registry = [gemini |-> FALSE, cohere |-> FALSE]
    /\ fsFault = 0
    /\ pc = "idle"
    /\ phase = 0
    /\ started = <<>>
    /\ returned = <<>>
    /\ threw = 0
    /\ context = NewContext
    /\ localMap = <<>>
    /\ cursor = 1
    /\ srcTree = EmptyTree
    /\ outTree = EmptyTree
    /\ outWrites = {}
    /\ srcWrites = {}
    /\ fallbackRan = FALSE
    /\ wrapped = FALSE
    /\ warned = FALSE
    /\ integrated = 0
    /\ runs = 0

-----------------------------------------------------------------------------
(* The React runtime: AartisanProvider and the components that call         *)
(* useAIEnhanced below it.                                                  *)
(*                                                                          *)
(* An object or closure created during a render is a fresh identity; it is  *)
(* named by the render that made it.  React flushes the effects of a commit *)
(* before it renders again, so an effect's remembered deps are never more   *)
(* than one render old and MaxIdentities names suffice.                     *)

MaxComponents == 2
MaxRenders    == 3
MaxIdentities == 3

Components == 1..MaxComponents

\* The identity of the config object the parent passes: the same at every
\* render while the props stay unchanged.
ParentConfig == 0

freshIdentity(v) == (v % MaxIdentities) + 1

\* provider.jsx AartisanProvider: config = {} makes a new object at every
\* render unless the parent passes one.
configOf(given, version) == IF given THEN ParentConfig ELSE version

\* provider.jsx registerComponent(id, metadata): the update it schedules.
registerComponent(id) == [op |-> "set", id |-> id]

\* provider.jsx unregisterComponent(id): the update it schedules.
unregisterComponent(id) == [op |-> "delete", id |-> id]

\* provider.jsx useEffect(..., [config, debug]): the update it schedules.
configUpdate == [op |-> "config", id |-> 0]

\* The updaters handed to setContextValue, applied in order; each returns a
\* new object, so a non-empty queue always yields a new state.
RECURSIVE applyUpdates(_, _)
applyUpdates(enhanced, queue) ==
    IF queue = <<>> THEN enhanced
    ELSE applyUpdates(IF Head(queue).op = "set" THEN enhanced \cup {Head(queue).id}
                      ELSE IF Head(queue).op = "delete" THEN enhanced \ {Head(queue).id}
                      ELSE enhanced,
                      Tail(queue))

\* useEffect's comparison of [componentId, registerComponent,
\* unregisterComponent] with the deps of the last run: the two functions are
\* the closures of the provider's last render.
effectPending(i) ==
    /\ i \in hUsers
    /\ (~hEffectDeps[i].ran \/ hEffectDeps[i].fn # hVersion)

\* useEffect's comparison of [config, debug] with the deps of the last run.
providerEffectPending ==
    ~hProviderDeps.ran \/ hProviderDeps.config # hConfig

ReactInit ==
    /\ hStage = "unmounted"
    /\ hConfigGiven \in BOOLEAN
    /\ hUsers \in SUBSET Components
    /\ hRefAttached \in SUBSET hUsers
    /\ hVersion = 0
    /\ hConfig = ParentConfig
    /\ hProviderDeps = [ran |-> FALSE, config |-> ParentConfig]
    /\ hEffectDeps = [i \in Components |-> [ran |-> FALSE, fn |-> 0]]
    /\ hCleanup = {}
    /\ hQueue = <<>>
    /\ hEnhanced = {}
    /\ hRenders = 0

\* The first render of the provider and of the components below it.
MountTree ==
    /\ hStage = "unmounted"
    /\ hStage' = "mounted"
    /\ hVersion' = 1
    /\ hConfig' = configOf(hConfigGiven, 1)
    /\ hRenders' = 1
    /\ UNCHANGED <<hConfigGiven, hUsers, hRefAttached, hProviderDeps, hEffectDeps,
                   hCleanup, hQueue, hEnhanced>>

\* hooks.js useAIEnhanced, the effect of component i: the cleanup of the
\* previous run, then the body.
UseAIEnhancedEffect(i) ==
    /\ hStage = "mounted"
    /\ effectPending(i)
    /\ hQueue' = hQueue
                 \o (IF i \in hCleanup THEN <<unregisterComponent(i)>> ELSE <<>>)
                 \o (IF i \in hRefAttached THEN <<registerComponent(i)>> ELSE <<>>)
    /\ hCleanup' = IF i \in hRefAttached THEN hCleanup \cup {i} ELSE hCleanup \ {i}
    /\ hEffectDeps' = [hEffectDeps EXCEPT ![i] = [ran |-> TRUE, fn |-> hVersion]]
    /\ UNCHANGED <<hStage, hConfigGiven, hUsers, hRefAttached, hVersion, hConfig,
                   hProviderDeps, hEnhanced, hRenders>>

\* provider.jsx AartisanProvider, the effect on [config, debug].
ProviderEffect ==
    /\ hStage = "mounted"
    /\ providerEffectPending
    /\ hQueue' = Append(hQueue, configUpdate)
    /\ hProviderDeps' = [ran |-> TRUE, config |-> hConfig]
    /\ UNCHANGED <<hStage, hConfigGiven, hUsers, hRefAttached, hVersion, hConfig,
                   hEffectDeps, hCleanup, hEnhanced, hRenders>>

\* provider.jsx AartisanProvider, a render caused by scheduled updates: the
\* state is replaced, registerComponent and unregisterComponent are defined
\* anew, and the new context value re-renders every consumer.
AartisanProvider ==
    /\ hStage = "mounted"
    /\ hQueue # <<>>
    /\ ~providerEffectPending
    /\ \A i \in hUsers : ~effectPending(i)
    /\ hEnhanced' = applyUpdates(hEnhanced, hQueue)
    /\ hQueue' = <<>>
    /\ hVersion' = freshIdentity(hVersion)
    /\ hConfig' = configOf(hConfigGiven, freshIdentity(hVersion))
    /\ hRenders' = IF hRenders < MaxRenders THEN hRenders + 1 ELSE hRenders
    /\ UNCHANGED <<hStage, hConfigGiven, hUsers, hRefAttached, hProviderDeps,
                   hEffectDeps, hCleanup>>

ReactNext ==
    \/ MountTree
    \/ \E i \in Components : UseAIEnhancedEffect(i)
    \/ ProviderEffect
    \/ AartisanProvider

ReactIdle ==
    /\ hStage = "idle"
    /\ hConfigGiven = TRUE
    /\ hUsers = {}
    /\ hRefAttached = {}
    /\ hVersion = 0
    /\ hConfig = ParentConfig
    /\ hProviderDeps = [ran |-> FALSE, config |-> ParentConfig]
    /\ hEffectDeps = [i \in Components |-> [ran |-> FALSE, fn |-> 0]]
    /\ hCleanup = {}
    /\ hQueue = <<>>
    /\ hEnhanced = {}
    /\ hRenders = 0

-----------------------------------------------------------------------------
(* Specifications                                                           *)

\* The port command on one project, run up to MaxRuns times.
Init == PortInit /\ ClassifierIdle /\ TransformIdle /\ ReconcileIdle /\ AnalyzerIdle /\ ReactIdle /\ AnnotateIdle
Next == PortNext /\ UNCHANGED <<classifierVars, transformVars, reconcileVars, analyzerVars, reactVars, annotateVars>>
Spec == Init /\ [][Next]_vars

\* The classifier and the purpose inferencer on one declaration.
InitClassifier == ClassifierInit /\ TransformIdle /\ ReconcileIdle /\ AnalyzerIdle /\ PortIdle /\ ReactIdle /\ AnnotateIdle
NextClassifier == ClassifierNext /\ UNCHANGED <<transformVars, reconcileVars, analyzerVars, portVars, reactVars, annotateVars>>
SpecClassifier == InitClassifier /\ [][NextClassifier]_vars

\* The strategy engine and the import reconciler on one file.
InitTransform == TransformInit /\ ClassifierIdle /\ ReconcileIdle /\ AnalyzerIdle /\ PortIdle /\ ReactIdle /\ AnnotateIdle
NextTransform == TransformNext /\ UNCHANGED <<classifierVars, reconcileVars, analyzerVars, portVars, reactVars, annotateVars>>
SpecTransform == InitTransform /\ [][NextTransform]_vars

\* The analyzer's metadata enhancement of one component.
InitAnalyzer == AnalyzerInit /\ ClassifierIdle /\ TransformIdle /\ ReconcileIdle /\ PortIdle /\ ReactIdle /\ AnnotateIdle
NextAnalyzer == AnalyzerNext /\ UNCHANGED <<classifierVars, transformVars, reconcileVars, portVars, reactVars, annotateVars>>
SpecAnalyzer == InitAnalyzer /\ [][NextAnalyzer]_vars

\* The import reconciliation that follows the rewrite of a file's components.
InitReconcile == ReconcileInit /\ ClassifierIdle /\ TransformIdle /\ AnalyzerIdle /\ PortIdle /\ ReactIdle /\ AnnotateIdle
NextReconcile == ReconcileNext /\ UNCHANGED <<classifierVars, transformVars, analyzerVars, portVars, reactVars, annotateVars>>
SpecReconcile == InitReconcile /\ [][NextReconcile]_vars

\* The provider and the components using the hook, from the first render on;
\* React runs every effect and every render it has scheduled.
InitReact == ReactInit /\ ClassifierIdle /\ TransformIdle /\ ReconcileIdle /\ AnalyzerIdle /\ PortIdle /\ AnnotateIdle
NextReact == ReactNext /\ UNCHANGED <<classifierVars, transformVars, reconcileVars, analyzerVars, portVars, annotateVars>>
SpecReact == InitReact /\ [][NextReact]_vars /\ WF_vars(NextReact)

\* The annotate command on one file with directives.
InitAnnotate == AnnotateInit /\ ClassifierIdle /\ TransformIdle /\ ReconcileIdle /\ AnalyzerIdle /\ PortIdle /\ ReactIdle
NextAnnotate == AnnotateNext /\ UNCHANGED <<classifierVars, transformVars, reconcileVars, analyzerVars, portVars, reactVars>>
SpecAnnotate == InitAnnotate /\ [][NextAnnotate]_vars

-----------------------------------------------------------------------------
(* Properties                                                               *)

\* C1: portProject starts its six phases in the fixed order 1..6, each only
\* after the previous one returned; once a phase has thrown, no later phase
\* starts and the invocation is rejected instead of completing.
C1_PhaseOrder ==
    /\ Len(started) <= 6
    /\ \A i \in 1..Len(started) : started[i] = i
    /\ \A i \in 1..Len(returned) : returned[i] = i
    /\ Len(returned) <= Len(started)
    /\ Len(started) <= Len(returned) + 1
    /\ (threw # 0 => pc = "rejected" /\ Len(started) = threw /\ Len(returned) = threw - 1)
    /\ (pc = "rejected" => threw # 0)
    /\ (pc = "done" => threw = 0 /\ Len(returned) = 6)

\* A phase after the first four threw and the invocation was rejected.
C1_Witness == pc = "rejected" /\ threw = 5 /\ returned = <<1, 2, 3, 4>>

\* C2: with the manifest missing or naming no react dependency, an invocation
\* that has started is rejected by phase 1 and nothing has been copied or
\* written under the output path.
C2_RejectBeforeWrite ==
    ((~pathExists(srcTree, ManifestPath) \/ ~srcTree[ManifestPath].react)
        /\ Len(started) >= 1)
    => /\ pc = "rejected"
       /\ threw = 1
       /\ started = <<1>>
       /\ outWrites = {}
       /\ outTree = EmptyTree

\* Phase 1 rejected a project whose manifest is there but names no react.
C2_Witness ==
    /\ pc = "rejected"
    /\ threw = 1
    /\ pathExists(srcTree, ManifestPath)
    /\ ~srcTree[ManifestPath].react

\* C3: the second run of the basic-level transform over a file leaves the
\* text the first run produced: nothing is added and the file is not written.
C3_BasicIdempotent ==
    (tLevel = "basic" /\ tPasses = 2) => (tFile = tPrev /\ ~tWritten)

\* The first basic pass changed the file and a second pass has run over it.
C3_Witness ==
    /\ tLevel = "basic"
    /\ tPasses = 2
    /\ tPrev # tOrig
    /\ \E i \in 1..Len(tPrev.decls) : \E j \in 1..Len(tPrev.decls[i].sites) :
          hasAartisanAttributes(tPrev.decls[i].sites[j].attrs)

MainEntryPath == "src/main.jsx"

\* An entry file with one mount call that a detector matches and that hands
\* the detector a JSX element.
MountsElement(file) ==
    /\ Len(file.calls) = 1
    /\ firstDetector(file.calls) # 0
    /\ file.calls[1].args[detects(firstDetector(file.calls), file.calls[1])].kind = "jsx"

\* The element an entry file with one mount call mounts.
MountedElement(file) ==
    LET args == file.calls[1].args
    IN  args[CHOOSE j \in 1..Len(args) : args[j].kind = "jsx"].chain

\* The AartisanProvider elements around the application an entry file mounts:
\* those written around the mounted element, and the one of the wrapper file
\* when the entry file takes App from it.
ProvidersAround(file) ==
    Cardinality({i \in 1..Len(MountedElement(file)) :
                    MountedElement(file)[i] = "AartisanProvider"})
    + (IF \E i \in 1..Len(file.imports) : file.imports[i].source = "./AartisanApp"
       THEN 1 ELSE 0)

\* C4: after provider integration has run twice on a project whose entry file
\* mounts a JSX element, the entry file of the ported application has exactly
\* one AartisanProvider around the mounted application.
C4_ExactlyOneProvider ==
    (/\ integrated >= 2
     /\ pathExists(project, MainEntryPath)
     /\ pathExists(outTree, MainEntryPath)
     /\ project[MainEntryPath].parses
     /\ MountsElement(project[MainEntryPath]))
    => ProvidersAround(outTree[MainEntryPath]) = 1

\* C5: when the provider call throws for a component, the metadata left on
\* the component is the metadata the enhancement without AI would have left.
C5_ThrowEqualsHeuristic ==
    (/\ aStage = "enhanced"
     /\ isAIAvailable(aProviders)
     /\ aUseAI # "false"
     /\ aCallThrows)
    => aMetadata = basicEnhancement(aComponent)

\* Some ReturnStatement of the subtree returns JSX, or the declaration is an
\* arrow function whose expression body is JSX.
ReturnsJSXSomewhere(node) ==
    \/ \E i \in 1..Len(node.sites) :
          node.sites[i].stmt = "return" /\ IsJSX(node.sites[i].arg)
    \/ (node.init = "arrow" /\ node.body \in {"jsx", "fragment"})

\* C6: each classifier reports a function declaration or a declared arrow
\* function exactly when it returns JSX somewhere in its subtree.
C6_ClassifierIffJSX ==
    (/\ cStage \in {"classified", "extracted"}
     /\ (cNode.decl = "FunctionDeclaration" \/ cNode.init = "arrow"))
    => /\ cReported.port = ReturnsJSXSomewhere(cNode)
       /\ cReported.analyzer = ReturnsJSXSomewhere(cNode)
       /\ cReported.jsx = ReturnsJSXSomewhere(cNode)

\* C7: the purpose the port pipeline puts on a component is the purpose the
\* analyzer's rule list gives for its name.
C7_PortPurposeIsAnalyzerPurpose ==
    (cStage = "extracted" /\ cDescriptor.port.result = "component")
    => cDescriptor.port.purpose = inferPurposeAnalyzer(cDescriptor.port.name)

\* A useAIEnhanced call stands in a function body of the file.
HasHookCall(file) ==
    \E i \in 1..Len(file.decls) : \E j \in 1..Len(file.decls[i].stmts) :
        file.decls[i].stmts[j].call = "useAIEnhanced"

\* useAIEnhanced is imported from a toolkit module.
ImportsHook(file) ==
    \E i \in 1..Len(file.imports) :
        /\ includes(file.imports[i].source, "aartisan")
        /\ \E j \in 1..Len(file.imports[i].specifiers) :
              file.imports[i].specifiers[j] = Named("useAIEnhanced")

\* C8: at every level, a file the transform wrote that holds an inserted
\* useAIEnhanced call imports useAIEnhanced from the toolkit module.
C8_HookImported ==
    (tPasses >= 1 /\ tWritten /\ HasHookCall(tFile)) => ImportsHook(tFile)

\* C9: when phase 4 has inspected entry files and no detector wrapped a mount
\* call, the wrapper-file fallback has run, unless wrapper creation is
\* disabled.
C9_FallbackRuns ==
    (/\ Len(returned) >= 4
     /\ Len(context.entryPoints) > 0
     /\ ~wrapped
     /\ options.createWrapper # "false")
    => fallbackRan

\* The destination paths of the component files whose traversal completed
\* and found components.
ExpectedKeys ==
    {destFilePathOf(context.componentFiles[i]) : i \in
        {i \in 1..Len(context.componentFiles) :
            LET found == identifyComponents(srcTree[context.componentFiles[i].path])
            IN  found.ok /\ found.components # <<>>}}

\* The map is complete when the second pass reads its first entry, and holds
\* the same file entries from then on.
C10_Populated ==
    /\ (pc = "enhance" \/ Len(returned) >= 3)
          => Keys(context.componentMap) = ExpectedKeys
    /\ (pc = "enhance" /\ cursor = 1)
          => \A i \in 1..Len(context.componentMap) :
                LET e == context.componentMap[i] IN
                /\ e.content = srcTree[e.sourceFilePath.path]
                /\ e.components = identifyComponents(e.content).components

\* Within one invocation the second pass adds and removes no file entry, and
\* the phases after transform leave the map as it is.
C10_Frame ==
    /\ (pc = "enhance" /\ runs' = runs)
          => Keys(context.componentMap') = Keys(context.componentMap)
    /\ (Len(returned) >= 3 /\ runs' = runs)
          => context.componentMap' = context.componentMap

\* The timing and frame parts of the componentMap invariant, over the files
\* the first pass recorded: the map is complete before the second pass reads
\* its first entry, no file entry is added or removed while the second pass
\* iterates, and no later phase changes the map.
ComponentMapSettled == []C10_Populated /\ [][C10_Frame]_vars

\* A declaration the classifier of the port pipeline takes for a component.
ClassifiedAsComponent(node) ==
    \/ (node.decl = "FunctionDeclaration" /\ isReactComponent(node))
    \/ (node.decl = "VariableDeclarator" /\ node.init = "arrow" /\ isReactComponent(node))
    \/ (node.decl = "ClassDeclaration" /\ isReactClassComponent(node))

\* The destination paths of the component files that parse and hold a
\* component.
ParseableComponentKeys ==
    {destFilePathOf(context.componentFiles[i]) : i \in
        {i \in 1..Len(context.componentFiles) :
            LET content == srcTree[context.componentFiles[i].path]
            IN  /\ content.parses
                /\ \E j \in 1..Len(content.decls) :
                      ClassifiedAsComponent(content.decls[j])}}

\* C10: when the second pass reads its first entry, and in every later phase,
\* context.componentMap holds an entry for every parseable component file.
C10_EveryParseableFile ==
    (pc = "enhance" \/ Len(returned) >= 3)
        => Keys(context.componentMap) = ParseableComponentKeys

\* A component file the transform phase fails on: it does not parse, a
\* visitor throws on it, or its destination cannot be written.
TransformFails(p) ==
    \/ ~identifyComponents(srcTree[p]).ok
    \/ (writeFails(fsFault, p) /\ transformFile(srcTree[p], options.level).write)

\* C11: the transform phase never throws, and when it has returned every
\* component file it did not fail on holds in the output tree what the two
\* passes make of it (the enhanced text if it was modified, the copy if not),
\* whatever happened to the other files.
C11_FailuresSkipped ==
    /\ threw # 3
    /\ (phase = 3 /\ pc = "ready") =>
          \A i \in 1..Len(context.componentFiles) :
             \E p \in {context.componentFiles[i].path} :
                ~TransformFails(p) =>
                   outTree[p] = transformFile(srcTree[p], options.level).content

\* The transform phase returned after failing on one file and writing the
\* enhanced text of another.
C11_Witness ==
    /\ phase = 3
    /\ pc = "ready"
    /\ \E i, j \in 1..Len(context.componentFiles) :
          /\ TransformFails(context.componentFiles[i].path)
          /\ ~TransformFails(context.componentFiles[j].path)
          /\ outTree[context.componentFiles[j].path] # srcTree[context.componentFiles[j].path]

\* C12: when the import reconciliation failed for a file whose component
\* bodies were rewritten, the file has still been written and holds the
\* rewritten bodies.
C12_WrittenDespiteFailure ==
    (rStage = "done" /\ rResult.rewritten /\ rResult.failed)
        => (rResult.written /\ rResult.content.decls = rResult.bodies)

\* C13: once initializeProviders has been called, a provider whose key was
\* given is available and getBestProvider names it, Gemini before Cohere;
\* with no key given, no provider is available and getBestProvider is null.
C13_KeyRegistersProvider ==
    aStage \in {"initialized", "enhanced"} =>
        /\ isAIAvailable(aProviders) = (aKeys.gemini \/ aKeys.cohere)
        /\ getBestProvider(aProviders) =
              (IF aKeys.gemini THEN "gemini"
               ELSE IF aKeys.cohere THEN "cohere"
               ELSE "null")

\* A useAIEnhanced call made for the component of that name stands in the file.
HookFor(file, name) ==
    \E i \in 1..Len(file.decls) : \E j \in 1..Len(file.decls[i].stmts) :
        /\ file.decls[i].stmts[j].call = "useAIEnhanced"
        /\ file.decls[i].stmts[j].name = name

\* An element of the file carries the component marker of that name.
MarkersFor(file, name) ==
    \E i \in 1..Len(file.decls) : \E j \in 1..Len(file.decls[i].sites) :
        \E k \in 1..Len(file.decls[i].sites[j].attrs) :
            file.decls[i].sites[j].attrs[k] = Attr("data-aartisan-component", name)

\* The purposes written next to the component marker of that name.
MarkerPurposes(file, name) ==
    UNION {{file.decls[i].sites[j].attrs[2].value :
              j \in {j \in 1..Len(file.decls[i].sites) :
                       /\ Len(file.decls[i].sites[j].attrs) >= 3
                       /\ file.decls[i].sites[j].attrs[3] =
                             Attr("data-aartisan-component", name)
                       /\ file.decls[i].sites[j].attrs[1] = Attr("data-aartisan", "true")}} :
           i \in 1..Len(file.decls)}

\* C14: after the first pass over a file, what each of its components was
\* given follows from its kind, the level and its name: App gets markers with
\* purpose application-root and no hook; another function or arrow component
\* gets markers and no hook at basic, the hook and no markers at standard and
\* advanced; a class component gets no hook.
C14_StrategyByKindLevelName ==
    (tPasses = 1 /\ identifyComponents(tPrev).ok) =>
        \A i \in 1..Len(identifyComponents(tPrev).components) :
          \E c \in {identifyComponents(tPrev).components[i]} :
            \E hookAdded \in {HookFor(tFile, c.name) /\ ~HookFor(tPrev, c.name)},
               markersAdded \in {MarkersFor(tFile, c.name) /\ ~MarkersFor(tPrev, c.name)} :
              /\ (c.type # "class" /\ c.name = "App") =>
                    /\ ~hookAdded
                    /\ markersAdded
                    /\ MarkerPurposes(tFile, "App") = {"application-root"}
              /\ (c.type # "class" /\ c.name # "App" /\ tLevel = "basic") => ~hookAdded
              /\ (c.type # "class" /\ c.name # "App" /\ tLevel # "basic") =>
                    (hookAdded /\ ~markersAdded)
              /\ (c.type = "class") => ~hookAdded

\* C15: a second run of the engine over the output of the first, at any
\* level, adds nothing to a component: its function body has as many
\* statements (no further hook statement) and each of its root elements as
\* many attributes (no further ref, aiProps spread or marker) as before.
C15_RerunAddsNothing ==
    tPasses = 2 =>
        \A i \in 1..Len(tPrev.decls) :
            /\ Len(tFile.decls[i].stmts) = Len(tPrev.decls[i].stmts)
            /\ \A j \in 1..Len(tPrev.decls[i].sites) :
                  Len(tFile.decls[i].sites[j].attrs) = Len(tPrev.decls[i].sites[j].attrs)

\* The App file the wrapper fallback looks for is not in the output tree.
AppFileMissing == firstExisting(outTree, AppFileCandidates) = ""

-----------------------------------------------------------------------------
(* C17: the heuristic inferencers are total.                                *)

\* The patterns each implementation tests a name against.
PortPatterns ==
    {"button", "card", "list", "item", "form", "input", "nav", "header",
     "footer", "modal", "table", "chart", "graph", "container", "layout",
     "sidebar", "tab", "dialog", "alert", "notification", "icon"}

AnalyzerPatterns ==
    {"button", "btn", "card", "list", "form", "input", "field", "select",
     "checkbox", "radio", "textarea", "nav", "menu", "header", "footer",
     "modal", "dialog", "popup", "table", "chart", "graph", "plot",
     "container", "wrapper", "layout", "sidebar", "tab", "alert",
     "notification", "toast", "icon", "image", "img", "photo", "video",
     "player"}

JsxPatterns ==
    {"button", "card", "list", "item", "form", "input", "header", "footer",
     "nav", "modal"}

NoLabel == {"", "null", "undefined"}

\* C17: for the name of any declaration, each of the three heuristic
\* inferencers returns a non-empty label, never null or undefined, and
\* returns ui-component when the name matches none of its patterns; the
\* descriptor extracted for a component carries such a label.
C17_PurposeNeverEmpty ==
    \E n \in {cNode.name} :
       /\ inferPurpose(n) \notin NoLabel
       /\ inferPurposeAnalyzer(n) \notin NoLabel
       /\ inferPurposeJsx(n) \notin NoLabel
       /\ ~testAny(PortPatterns, n) => inferPurpose(n) = "ui-component"
       /\ ~testAny(AnalyzerPatterns, n) => inferPurposeAnalyzer(n) = "ui-component"
       /\ ~testAny(JsxPatterns, n) => inferPurposeJsx(n) = "ui-component"
       /\ (cStage = "extracted" /\ cDescriptor.port.result = "component")
             => cDescriptor.port.purpose \notin NoLabel

\* A component whose name matches no pattern was extracted with the
\* fall-through label.
C17_Witness ==
    /\ cStage = "extracted"
    /\ cDescriptor.port.result = "component"
    /\ ~testAny(PortPatterns, cNode.name)
    /\ cDescriptor.port.purpose = "ui-component"

-----------------------------------------------------------------------------
(* C18: writes stay under outputPath.                                       *)

\* C18: no phase of portProject creates or modifies a file under sourcePath:
\* the source tree stays the project the invocation was given, and the entry
\* file phase 4 rewrites is the copy under outputPath, never the original.
C18_WritesUnderOutput ==
    /\ srcWrites = {}
    /\ srcTree = project

-----------------------------------------------------------------------------
(* C19: basic markers go to the component's own root only.                  *)

\* The sites of declaration i that the last pass gave attributes.
SitesTouched(i) ==
    {j \in 1..Len(tFile.decls[i].sites) :
        tFile.decls[i].sites[j].attrs # tPrev.decls[i].sites[j].attrs}

\* C19: after a basic pass, each declaration of the file has at most one
\* element that was given attributes; that element is returned by the
\* declared function itself (not by a callback nested in it) and the
\* markers on it carry the declaration's own name and purpose.
C19_OwnRootOnly ==
    (tPasses = 1 /\ tLevel = "basic") =>
        \A i \in 1..Len(tFile.decls) :
          \E d \in {tFile.decls[i]}, touched \in {SitesTouched(i)} :
            /\ Cardinality(touched) <= 1
            /\ \A j \in touched :
                  /\ ~d.sites[j].nested
                  /\ isRootJSXElement(d.sites[j])
                  /\ \E purpose \in {inferPurpose(d.name), "application-root"} :
                        d.sites[j].attrs =
                           tPrev.decls[i].sites[j].attrs \o MarkerAttributes(purpose, d.name)

-----------------------------------------------------------------------------
(* C20: the hook under the provider settles.                                *)

\* Nothing is scheduled: no state update is queued and no effect has deps
\* that differ from those of its last run.
Quiescent ==
    /\ hStage = "mounted"
    /\ hQueue = <<>>
    /\ ~providerEffectPending
    /\ \A i \in hUsers : ~effectPending(i)

\* C20: when a component using useAIEnhanced is mounted under the provider
\* with its ref attached, the system eventually stays quiescent: the
\* register/unregister effect stops re-running and no provider state update
\* is scheduled any more.
C20_ReachesQuiescence == (hRefAttached # {}) => <>[]Quiescent

\* With a config object passed by the parent and no component registering,
\* the tree does settle: the loop needs one of the two effects to schedule
\* an update at every render.
SettlesWithoutRegistration == (hRefAttached = {} /\ hConfigGiven) => <>[]Quiescent

-----------------------------------------------------------------------------
(* C21: one detector, one call.                                             *)

\* The priority of the first detector that has something to wrap in a call
\* (5: none has).
PriorityOf(call) ==
    IF \E d \in 1..4 : detects(d, call) # 0
    THEN CHOOSE d \in 1..4 : detects(d, call) # 0 /\ \A e \in 1..(d - 1) : detects(e, call) = 0
    ELSE 5

\* The calls of an entry file that the first run of phase 4 rewrote.
CallsRewritten(p) ==
    {i \in 1..Len(project[p].calls) : srcTree[p].calls[i] # project[p].calls[i]}

\* C21: after the first run of phase 4, in every entry file at most one call
\* was rewritten; it is a call of the highest-priority detector that has a
\* call to wrap in that file, the first such call in source order, and the
\* calls only lower-priority detectors would wrap are left as they were.
C21_FirstDetectorOnly ==
    (phase = 4 /\ pc = "ready" /\ integrated = 1) =>
        \A k \in 1..Len(context.entryPoints) :
          \E p \in {context.entryPoints[k].path} :
            \E before \in {project[p].calls}, rewritten \in {CallsRewritten(p)} :
              /\ Len(srcTree[p].calls) = Len(before)
              /\ Cardinality(rewritten) <= 1
              /\ \A i \in rewritten : \A j \in 1..Len(before) :
                    /\ PriorityOf(before[i]) <= PriorityOf(before[j])
                    /\ PriorityOf(before[i]) = PriorityOf(before[j]) => i <= j

\* Phase 4 wrapped the second call of an entry file whose first call only a
\* lower-priority detector would wrap.
C21_Witness ==
    /\ phase = 4
    /\ pc = "ready"
    /\ integrated = 1
    /\ \E k \in 1..Len(context.entryPoints) :
          \E p \in {context.entryPoints[k].path} :
            /\ CallsRewritten(p) = {2}
            /\ PriorityOf(project[p].calls[1]) = 4
            /\ PriorityOf(project[p].calls[2]) = 3

-----------------------------------------------------------------------------
(* C22: an entry file that is already integrated.                           *)

\* The single mount call of the file already has AartisanProvider around the
\* mounted element, and the provider is imported.
AlreadyIntegrated(file) ==
    /\ file.parses
    /\ hasAartisanImport(file.imports)
    /\ Len(file.calls) = 1
    /\ \E k \in 1..Len(file.calls[1].args) :
          isWrappedWithAartisanProvider(file.calls[1].args[k])

\* The entry files phase 4 inspects are the single file MainEntryPath.
InspectsMainOnly ==
    SelectSeq(context.entryPoints,
              LAMBDA f : toLowerCase(basename(f.path)) \in MainEntryNames)
        = <<AbsPath("source", MainEntryPath)>>

\* C22: when the only entry file phase 4 inspects is already integrated,
\* phase 4 leaves it as it was, in both trees, creates no AartisanApp
\* wrapper file and does not redirect the entry file's App import.
C22_AlreadyWrappedUntouched ==
    (/\ phase = 4
     /\ pc = "ready"
     /\ InspectsMainOnly
     /\ AlreadyIntegrated(project[MainEntryPath]))
    => /\ srcTree[MainEntryPath] = project[MainEntryPath]
       /\ outTree[MainEntryPath] = project[MainEntryPath]
       /\ \A k \in 1..Len(AppFileCandidates) :
             ~pathExists(outTree, "src/AartisanApp" \o extname(AppFileCandidates[k]))

-----------------------------------------------------------------------------
(* C23: annotate replaces the component it enhanced.                        *)

\* C23: when annotate has written the answer for a component, the
\* declaration of that component is the answer's and every other
\* declaration of the file is what it was before.
C23_ReplacesOwnDeclaration ==
    (nStage \in {"enhance", "done"} /\ nApplied.written) =>
        \E c \in {nComponents[nApplied.component]} :
          /\ nFile.decls[c.componentNode] = nAnswer.code.decl
          /\ \A j \in 1..Len(nFile.decls) :
                j # c.componentNode => nFile.decls[j] = nPrev.decls[j]

-----------------------------------------------------------------------------
(* C24: the hydration detector.                                             *)

HydrationCallees ==
    {"hydrateRoot", "hydrate", "renderToDOM", "ReactDOM.hydrateRoot", "ReactDOM.hydrate"}

\* The positions, first or second, at which a call holds a JSX element that
\* is not yet inside AartisanProvider.
MountedAt(call) ==
    {k \in 1..2 : /\ k <= Len(call.args)
                  /\ call.args[k].kind = "jsx"
                  /\ ~isWrappedWithAartisanProvider(call.args[k])}

\* C24: when the entry file phase 4 inspects has a single call, of the
\* hydration kind, with a JSX element as its first or second argument, that
\* argument is inside AartisanProvider after the phase.
C24_HydrationWrapsJSXArgument ==
    (/\ phase = 4
     /\ pc = "ready"
     /\ InspectsMainOnly
     /\ project[MainEntryPath].parses
     /\ Len(project[MainEntryPath].calls) = 1
     /\ project[MainEntryPath].calls[1].callee \in HydrationCallees)
    => \A k \in MountedAt(project[MainEntryPath].calls[1]) :
          \/ isWrappedWithAartisanProvider(srcTree[MainEntryPath].calls[1].args[k])
          \/ isWrappedWithAartisanProvider(outTree[MainEntryPath].calls[1].args[k])

-----------------------------------------------------------------------------
(* C25, C27: the merged import block.                                       *)

\* The file imports the binding from the module.
ImportsBinding(file, source, specifier) ==
    \E i \in 1..Len(file.imports) :
        /\ file.imports[i].source = source
        /\ \E j \in 1..Len(file.imports[i].specifiers) :
              file.imports[i].specifiers[j] = specifier

\* C25: when annotate has written an answer that has import statements,
\* every binding those statements import is imported, from the same module,
\* in the file written.
C25_EnhancedBindingsImported ==
    (nStage \in {"enhance", "done"} /\ nApplied.written) =>
        \A i \in 1..Len(extractImports(nAnswer.code)) :
          \E statement \in {extractImports(nAnswer.code)[i]} :
            \A j \in 1..Len(statement.specifiers) :
               ImportsBinding(nFile, statement.source, statement.specifiers[j])

\* The statements of an import block that name the module.
StatementsFrom(block, source) == {i \in 1..Len(block) : block[i].source = source}

\* C27: the import block annotate writes is the original block followed by
\* exactly the statements of the answer whose module the original block does
\* not import, and each module of an appended statement occurs once in the
\* block.
C27_MergedBlockDedupsByModule ==
    (nStage \in {"enhance", "done"} /\ nApplied.written
        /\ extractImports(nAnswer.code) # <<>>) =>
        \E merged \in {nFile.imports}, original \in {nPrev.imports} :
          /\ Len(merged) >= Len(original)
          /\ SubSeq(merged, 1, Len(original)) = original
          /\ SubSeq(merged, Len(original) + 1, Len(merged)) =
                SelectSeq(extractImports(nAnswer.code),
                          LAMBDA n : StatementsFrom(original, n.source) = {})
          /\ \A i \in (Len(original) + 1)..Len(merged) :
                Cardinality(StatementsFrom(merged, merged[i].source)) = 1

-----------------------------------------------------------------------------
(* C26: the toolkit import after reconciliation.                            *)

\* The import declarations of a file whose module is the toolkit's.
ToolkitImports(file) ==
    {i \in 1..Len(file.imports) : includes(file.imports[i].source, "aartisan")}

\* The names the level requires for the components of the file.
RequiredNames(level, components) ==
    IF level = "standard"
       /\ ~\E i \in 1..Len(components) : components[i].type \in {"function", "arrow"}
    THEN {}
    ELSE {importSpecifiersOf(importTypeOf(level))[k].imported :
            k \in 1..Len(importSpecifiersOf(importTypeOf(level)))}

\* The number of import specifiers of the file that import the name.
TimesImported(file, name) ==
    Cardinality(UNION {{<<i, j>> : j \in {j \in 1..Len(file.imports[i].specifiers) :
                                             file.imports[i].specifiers[j].imported = name}} :
                       i \in 1..Len(file.imports)})

\* C26: after a pass that rewrote a file and required toolkit names: a file
\* that had a toolkit import has as many import declarations as before, each
\* with its former specifiers first and nothing but missing required names
\* after them; a file that had none has one new declaration before the
\* former ones; every required name is imported exactly once; and
\* reconciling the result again leaves the imports as they are.
C26_ReconcileAppendsOnce ==
    (tPasses = 1 /\ tWritten) =>
      \E components \in {identifyComponents(tPrev).components} :
        \E required \in {RequiredNames(tLevel, components)} :
          required # {} =>
            /\ ToolkitImports(tPrev) # {} =>
                  /\ Len(tFile.imports) = Len(tPrev.imports)
                  /\ \A i \in 1..Len(tPrev.imports) :
                        \E before \in {tPrev.imports[i].specifiers},
                           after \in {tFile.imports[i].specifiers} :
                          /\ tFile.imports[i].source = tPrev.imports[i].source
                          /\ Len(after) >= Len(before)
                          /\ SubSeq(after, 1, Len(before)) = before
                          /\ \A j \in (Len(before) + 1)..Len(after) :
                                /\ after[j].imported \in required
                                /\ TimesImported(tPrev, after[j].imported) = 0
            /\ ToolkitImports(tPrev) = {} =>
                  /\ Len(tFile.imports) = Len(tPrev.imports) + 1
                  /\ Tail(tFile.imports) = tPrev.imports
                  /\ ToolkitImports(tFile) = {1}
            /\ \A name \in required : TimesImported(tFile, name) = 1
            /\ addAartisanImports(tFile, components, tLevel).imports = tFile.imports

-----------------------------------------------------------------------------
(* C28: where the hook and its attributes go.                               *)

\* The ref attributes and the aiProps spreads of an opening element.
RefsOf(attrs) == {k \in 1..Len(attrs) : attrs[k].kind = "attr" /\ attrs[k].name = "ref"}
SpreadsOf(attrs) == {k \in 1..Len(attrs) : attrs[k] = Spread("aiProps")}

\* The site of a declaration the hook's attributes belong on: the first
\* return of a JSX element, or the expression body of an arrow function
\* (0: the declaration has neither).
HookSite(d) ==
    IF d.body = "block" THEN FirstJSXReturn(d)
    ELSE IF d.body = "jsx" /\ d.init = "arrow" THEN 1
    ELSE 0

\* C28: after a standard pass, every function or arrow component other than
\* App that has a JSX-returning return (or is an expression-bodied arrow
\* returning an element) has a block body whose first statement is the hook
\* call for that component, one statement more than before; the element of
\* its first JSX-returning return keeps its attributes and gains the
\* aiProps spread once, and it has the ref attribute it had before or, if
\* it had none, one ref attribute bound to the hook's ref right before the
\* spread.
C28_HookFirstRefIfAbsent ==
    (tPasses = 1 /\ tLevel = "standard" /\ identifyComponents(tPrev).ok) =>
        \A c \in 1..Len(identifyComponents(tPrev).components) :
          \E component \in {identifyComponents(tPrev).components[c]} :
            \A i \in 1..Len(tPrev.decls) :
              (/\ component.type \in {"function", "arrow"}
               /\ component.name # "App"
               /\ tPrev.decls[i].name = component.name
               /\ tPrev.decls[i].decl # "ClassDeclaration"
               /\ HookSite(tPrev.decls[i]) # 0)
              => \E before \in {tPrev.decls[i]}, after \in {tFile.decls[i]} :
                   \E old \in {before.sites[HookSite(before)].attrs},
                      new \in {after.sites[HookSite(before)].attrs} :
                     /\ after.body = "block"
                     /\ after.sites[HookSite(before)].stmt = "return"
                     /\ Len(after.stmts) = Len(before.stmts) + 1
                     /\ after.stmts[1] = hookCall(component)
                     /\ SubSeq(new, 1, Len(old)) = old
                     /\ Cardinality(SpreadsOf(new)) = Cardinality(SpreadsOf(old)) + 1
                     /\ IF RefsOf(old) # {}
                        THEN RefsOf(new) = RefsOf(old)
                        ELSE \E k \in (Len(old) + 1)..(Len(new) - 1) :
                               /\ RefsOf(new) = {k}
                               /\ new[k] = Attr("ref", "ref")
                               /\ new[k + 1] = Spread("aiProps")

\* A standard pass over a file with a component whose returned element had
\* a ref of its own and an expression-bodied arrow component.
C28_Witness ==
    /\ tPasses = 1
    /\ tLevel = "standard"
    /\ Len(tFile.decls) = 2
    /\ tPrev.decls[1].name = "Widget"
    /\ tPrev.decls[1].decl = "FunctionDeclaration"
    /\ tFile.decls[1].sites[2].attrs = <<Attr("ref", "myRef"), Spread("aiProps")>>
    /\ tPrev.decls[2].body = "jsx"
    /\ tFile.decls[2].body = "block"
    /\ tFile.decls[2].stmts[1].call = "useAIEnhanced"
    /\ tFile.decls[2].sites[1].attrs = <<Attr("ref", "ref"), Spread("aiProps")>>

-----------------------------------------------------------------------------
(* C29: declarations without a name.                                        *)

\* The names of the components the first pass recorded for a source path.
ReportedNames(p) ==
    UNION {{context.componentMap[i].components[j].name :
                j \in 1..Len(context.componentMap[i].components)} :
           i \in {i \in 1..Len(context.componentMap) :
                     context.componentMap[i].sourceFilePath.path = p}}

\* C29: once the first pass is over, every named declaration the classifier
\* takes for a component is reported for its file, whether or not the file
\* also holds a component without a name.
C29_NamedComponentsStillReported ==
    (pc = "enhance" \/ Len(returned) >= 3) =>
        \A i \in 1..Len(context.componentFiles) :
          \E p \in {context.componentFiles[i].path} :
            \E content \in {srcTree[p]} :
              content.parses =>
                \A j \in 1..Len(content.decls) :
                    (/\ ClassifiedAsComponent(content.decls[j])
                     /\ content.decls[j].id = "identifier"
                     /\ content.decls[j].name # "")
                    => content.decls[j].name \in ReportedNames(p)

-----------------------------------------------------------------------------
(* C30: one request at a time.                                              *)

\* The place of a request kind in a run: the key check, then the reranks of
\* gatherCodebaseContext, then the generate requests of the component loop.
StepOf(kind) == IF kind = "validate" THEN 0 ELSE IF kind = "rerank" THEN 1 ELSE 2

\* C30: during an annotate run at most one request is in flight, and the
\* requests are issued in the order key validation, reranks, generates,
\* each kind going through the components in their order, one request per
\* component.
C30_OneRequestInFlight ==
    /\ Cardinality(nInFlight) <= 1
    /\ \A i, j \in 1..Len(nIssued) :
          i < j =>
            \/ StepOf(nIssued[i].kind) < StepOf(nIssued[j].kind)
            \/ /\ nIssued[i].kind = nIssued[j].kind
               /\ nIssued[i].component < nIssued[j].component
    /\ \A i \in 1..Len(nIssued) :
          nIssued[i].kind # "validate" => nIssued[i].component \in 1..Len(nComponents)

\* A finished run over two components with key validation, two reranks and
\* two generate requests.
C30_Witness ==
    /\ nStage = "done"
    /\ Len(nComponents) = 2
    /\ nIssued = <<Request("validate", 0), Request("rerank", 1), Request("rerank", 2),
                   Request("generate", 1), Request("generate", 2)>>
    /\ nInFlight = {}

====
